---- MODULE Spec2Model ----
(***************************************************************************)
(* Model of the per-agent diagnostic evaluator (EventEvaluator) of the     *)
(* context-window monitor, and of the pure functions around it: health     *)
(* classification, session summary, profile matching, time-series          *)
(* building and batch compaction detection.                                *)
(*                                                                         *)
(* Percentages are fixed-point hundredths: pct 0.70 is 70, the compaction  *)
(* drop threshold 0.05 is 5, the tool error rate 0.15 is 15.  An event is  *)
(* the record the evaluator's emit() builds, without its message (a        *)
(* rendering of the payload) and its random id.  A point is               *)
(* [t, abs, pct]: abs is the token count and pct = abs / limit.            *)
(*                                                                         *)
(* The module holds several specifications over one set of variables:      *)
(*   Spec        one evaluator fed turn by turn                            *)
(*   SpecSession one evaluator with its tool statistics and complete()     *)
(*   SpecAgents  the evaluators of several agents, turns interleaved       *)
(*   SpecZone, SpecTotal, SpecTwin                                         *)
(*               evaluators fed boundary, out-of-range and mirrored inputs *)
(*   SpecHealth, SpecSummary, SpecResolve, SpecSeries, SpecSuggest         *)
(*               one call of a pure function on an input drawn by Init     *)
(*   SpecRead    a growing transcript file read incrementally              *)
(*   SpecLines, SpecEvents, SpecIds                                        *)
(*               the messages and diagnostic_events tables                 *)
(*   SpecIngest  ingestFile on a file that grows, with the file's mtime     *)
(*   SpecSse     the clients and the keep-alive timer of SseManager         *)
(*   SpecWatcher the watchers, debounce timers and read states of           *)
(*               FileWatcher                                               *)
(*   SpecMonitor SessionMonitor from start() to stop() over its FileWatcher *)
(* Each keeps the variables of the others at their idle values.            *)
(***************************************************************************)
EXTENDS Integers, Sequences, FiniteSets, TLC

VARIABLES
  config, state, points, emitted,   \* one evaluator and the record of its calls
  tools, completed,                 \* SpecSession: tool inputs, complete() results
  evaluators, heap, agentLog,       \* SpecAgents: Map of evaluators, their state objects
  call, result,                     \* a pure function's arguments and what it returned
  file, fileState, delivered,       \* a transcript file, its watcher's state, lines handed on
  messages, diagnostic_events,      \* tables of the database, rows in rowid order
  dbLog, allEvents,                 \* lines/events given to the database; SessionMonitor.allEvents
  sse, watcher, monitor, runtime    \* SseManager, FileWatcher, SessionMonitor objects; what
                                    \* surrounds them: timers, files, connections

evalVars == <<config, state, points, emitted>>

sessionVars == <<tools, completed>>

agentVars == <<evaluators, heap, agentLog>>

callVars == <<call, result>>

storeVars == <<file, fileState, delivered, messages, diagnostic_events, dbLog, allEvents>>

objVars == <<sse, watcher, monitor, runtime>>

vars == <<config, state, points, emitted, tools, completed,
          evaluators, heap, agentLog, call, result,
          file, fileState, delivered, messages, diagnostic_events, dbLog, allEvents,
          sse, watcher, monitor, runtime>>

----------------------------------------------------------------------------
(* Bounds of the model *)

MaxTurns == 4

MaxToolCalls == 1

(* pct values fed to the evaluator (hundredths) *)
PctValues == {30, 55, 65, 70, 85, 95}

(* <<toolCalls, toolErrors>> of one turn *)
ToolInputs == {<<0, 0>>, <<1, 0>>, <<1, 1>>}

----------------------------------------------------------------------------
(* Program constants *)

COMPACTION_DROP_THRESHOLD == 5

DEFAULT_ALERTS ==
  [ warningThreshold   |-> 55,
    dumbZoneThreshold  |-> 75,
    compactionTarget   |-> 30,
    maxTurnsInDumbZone |-> 3,
    maxToolErrorRate   |-> 15,
    maxTurnsTotal      |-> 40 ]

(* the value of an optional property that was not given *)
Undefined == "<undefined>"

----------------------------------------------------------------------------
(* Construction *)

(* the objects the constructor is called with: a Partial<EvaluatorConfig>  *)
(* with an agentId; any other property may be absent, and a property the   *)
(* evaluator does not know (expectedTurns) may be present.  The evaluator  *)
(* does not validate its thresholds: the last input has warningThreshold   *)
(* above dumbZoneThreshold.                                                *)
ConfigInputs ==
  { [ agentId |-> "test", profileId |-> "p1",
      warningThreshold |-> 70, dumbZoneThreshold |-> 85,
      compactionTarget |-> 50, maxTurnsInDumbZone |-> 2,
      maxTurnsTotal |-> 2 ],
    [ agentId |-> "test" ],
    [ agentId |-> "test", profileId |-> "p1", expectedTurns |-> <<1, 3>> ],
    [ agentId |-> "test", profileId |-> "p1",
      warningThreshold |-> 85, dumbZoneThreshold |-> 70 ] }

Given(partial, name, default) ==
  IF name \in DOMAIN partial THEN partial[name] ELSE default

(* this.config = { ...defaults, ...config } *)
NewConfig(partial) ==
  [ agentId            |-> partial.agentId,
    profileId          |-> Given(partial, "profileId", Undefined),
    warningThreshold   |-> Given(partial, "warningThreshold", DEFAULT_ALERTS.warningThreshold),
    dumbZoneThreshold  |-> Given(partial, "dumbZoneThreshold", DEFAULT_ALERTS.dumbZoneThreshold),
    compactionTarget   |-> Given(partial, "compactionTarget", DEFAULT_ALERTS.compactionTarget),
    maxTurnsInDumbZone |-> Given(partial, "maxTurnsInDumbZone", DEFAULT_ALERTS.maxTurnsInDumbZone),
    maxToolErrorRate   |-> Given(partial, "maxToolErrorRate", DEFAULT_ALERTS.maxToolErrorRate),
    maxTurnsTotal      |-> Given(partial, "maxTurnsTotal", DEFAULT_ALERTS.maxTurnsTotal),
    expectedTurns      |-> Given(partial, "expectedTurns", <<>>) ]

NewState ==
  [ prevPct                  |-> 0,
    turnCount                |-> 0,
    warningCrossed           |-> FALSE,
    dumbzoneCrossed          |-> FALSE,
    consecutiveDumbZoneTurns |-> 0,
    totalToolCalls           |-> 0,
    totalToolErrors          |-> 0,
    started                  |-> FALSE ]

----------------------------------------------------------------------------
(* evaluateTurn, one operator per block of the method.  acc is             *)
(* [state, events]: the evaluator state and the list built so far.         *)

NoData == [none |-> TRUE]

Emit_Stamped(cfg, timestamp, severity, type, data) ==
  [ timestamp |-> timestamp,
    agentId   |-> cfg.agentId,
    profileId |-> cfg.profileId,
    severity  |-> severity,
    type      |-> type,
    data      |-> [at |-> timestamp, data |-> data] ]

Emit(cfg, timestamp, severity, type, data) ==
  [ timestamp |-> timestamp,
    agentId   |-> cfg.agentId,
    profileId |-> cfg.profileId,
    severity  |-> severity,
    type      |-> type,
    data      |-> data ]

(* !config.profileId *)
NoProfile(cfg) == cfg.profileId = Undefined \/ cfg.profileId = ""

StepCount(acc, toolCalls, toolErrors) ==
  [ acc EXCEPT !.state.turnCount = @ + 1,
               !.state.totalToolCalls = @ + toolCalls,
               !.state.totalToolErrors = @ + toolErrors ]

StepStarted_NoLatch(cfg, acc, point) ==
  IF ~acc.state.started
  THEN [ state  |-> acc.state,
         events |-> acc.events
             \o << Emit(cfg, point.t, "info", "agent_started",
                        [model |-> IF cfg.profileId = Undefined
                                   THEN "unmatched" ELSE cfg.profileId]) >>
             \o (IF NoProfile(cfg)
                 THEN << Emit(cfg, point.t, "warning", "unmatched_agent", NoData) >>
                 ELSE << >>) ]
  ELSE acc

StepStarted(cfg, acc, point) ==
  IF ~acc.state.started
  THEN [ state  |-> [acc.state EXCEPT !.started = TRUE],
         events |-> acc.events
             \o << Emit(cfg, point.t, "info", "agent_started",
                        [model |-> IF cfg.profileId = Undefined
                                   THEN "unmatched" ELSE cfg.profileId]) >>
             \o (IF NoProfile(cfg)
                 THEN << Emit(cfg, point.t, "warning", "unmatched_agent", NoData) >>
                 ELSE << >>) ]
  ELSE acc

StepCompaction_NoReset(cfg, acc, point) ==
  LET drop == acc.state.prevPct - point.pct
  IN IF drop > COMPACTION_DROP_THRESHOLD /\ acc.state.turnCount > 1
     THEN [ state  |-> acc.state,
            events |-> acc.events
                \o << Emit(cfg, point.t, "info", "compaction_detected",
                           [before |-> acc.state.prevPct, after |-> point.pct]) >>
                \o (IF point.pct > cfg.compactionTarget
                    THEN << Emit(cfg, point.t, "warning", "compaction_insufficient",
                                 [pct |-> point.pct, target |-> cfg.compactionTarget]) >>
                    ELSE << >>) ]
     ELSE acc

StepCompaction_DropGeq(cfg, acc, point) ==
  LET drop == acc.state.prevPct - point.pct
  IN IF drop >= COMPACTION_DROP_THRESHOLD /\ acc.state.turnCount > 1
     THEN [ state  |-> [acc.state EXCEPT !.warningCrossed = FALSE,
                                         !.dumbzoneCrossed = FALSE,
                                         !.consecutiveDumbZoneTurns = 0],
            events |-> acc.events
                \o << Emit(cfg, point.t, "info", "compaction_detected",
                           [before |-> acc.state.prevPct, after |-> point.pct]) >>
                \o (IF point.pct > cfg.compactionTarget
                    THEN << Emit(cfg, point.t, "warning", "compaction_insufficient",
                                 [pct |-> point.pct, target |-> cfg.compactionTarget]) >>
                    ELSE << >>) ]
     ELSE acc

StepCompaction_TargetGeq(cfg, acc, point) ==
  LET drop == acc.state.prevPct - point.pct
  IN IF drop > COMPACTION_DROP_THRESHOLD /\ acc.state.turnCount > 1
     THEN [ state  |-> [acc.state EXCEPT !.warningCrossed = FALSE,
                                         !.dumbzoneCrossed = FALSE,
                                         !.consecutiveDumbZoneTurns = 0],
            events |-> acc.events
                \o << Emit(cfg, point.t, "info", "compaction_detected",
                           [before |-> acc.state.prevPct, after |-> point.pct]) >>
                \o (IF point.pct >= cfg.compactionTarget
                    THEN << Emit(cfg, point.t, "warning", "compaction_insufficient",
                                 [pct |-> point.pct, target |-> cfg.compactionTarget]) >>
                    ELSE << >>) ]
     ELSE acc

StepCompaction_KeepsCounter(cfg, acc, point) ==
  LET drop == acc.state.prevPct - point.pct
  IN IF drop > COMPACTION_DROP_THRESHOLD /\ acc.state.turnCount > 1
     THEN [ state  |-> [acc.state EXCEPT !.warningCrossed = FALSE,
                                         !.dumbzoneCrossed = FALSE],
            events |-> acc.events
                \o << Emit(cfg, point.t, "info", "compaction_detected",
                           [before |-> acc.state.prevPct, after |-> point.pct]) >>
                \o (IF point.pct > cfg.compactionTarget
                    THEN << Emit(cfg, point.t, "warning", "compaction_insufficient",
                                 [pct |-> point.pct, target |-> cfg.compactionTarget]) >>
                    ELSE << >>) ]
     ELSE acc

StepCompaction_ResetsWarningOnly(cfg, acc, point) ==
  LET drop == acc.state.prevPct - point.pct
  IN IF drop > COMPACTION_DROP_THRESHOLD /\ acc.state.turnCount > 1
     THEN [ state  |-> [acc.state EXCEPT !.warningCrossed = FALSE,
                                         !.consecutiveDumbZoneTurns = 0],
            events |-> acc.events
                \o << Emit(cfg, point.t, "info", "compaction_detected",
                           [before |-> acc.state.prevPct, after |-> point.pct]) >>
                \o (IF point.pct > cfg.compactionTarget
                    THEN << Emit(cfg, point.t, "warning", "compaction_insufficient",
                                 [pct |-> point.pct, target |-> cfg.compactionTarget]) >>
                    ELSE << >>) ]
     ELSE acc

StepCompaction(cfg, acc, point) ==
  LET drop == acc.state.prevPct - point.pct
  IN IF drop > COMPACTION_DROP_THRESHOLD /\ acc.state.turnCount > 1
     THEN [ state  |-> [acc.state EXCEPT !.warningCrossed = FALSE,
                                         !.dumbzoneCrossed = FALSE,
                                         !.consecutiveDumbZoneTurns = 0],
            events |-> acc.events
                \o << Emit(cfg, point.t, "info", "compaction_detected",
                           [before |-> acc.state.prevPct, after |-> point.pct]) >>
                \o (IF point.pct > cfg.compactionTarget
                    THEN << Emit(cfg, point.t, "warning", "compaction_insufficient",
                                 [pct |-> point.pct, target |-> cfg.compactionTarget]) >>
                    ELSE << >>) ]
     ELSE acc

StepWarning_NoLatch(cfg, acc, point) ==
  IF point.pct >= cfg.warningThreshold /\ ~acc.state.warningCrossed
  THEN [ state  |-> acc.state,
         events |-> Append(acc.events,
                      Emit(cfg, point.t, "warning", "warning_threshold_crossed",
                           [pct |-> point.pct, threshold |-> cfg.warningThreshold])) ]
  ELSE acc

StepWarning_WrongThreshold(cfg, acc, point) ==
  IF point.pct >= cfg.compactionTarget /\ ~acc.state.warningCrossed
  THEN [ state  |-> [acc.state EXCEPT !.warningCrossed = TRUE],
         events |-> Append(acc.events,
                      Emit(cfg, point.t, "warning", "warning_threshold_crossed",
                           [pct |-> point.pct, threshold |-> cfg.warningThreshold])) ]
  ELSE acc

StepWarning(cfg, acc, point) ==
  IF point.pct >= cfg.warningThreshold /\ ~acc.state.warningCrossed
  THEN [ state  |-> [acc.state EXCEPT !.warningCrossed = TRUE],
         events |-> Append(acc.events,
                      Emit(cfg, point.t, "warning", "warning_threshold_crossed",
                           [pct |-> point.pct, threshold |-> cfg.warningThreshold])) ]
  ELSE acc

StepDumbzone_NoLatch(cfg, acc, point) ==
  IF point.pct >= cfg.dumbZoneThreshold /\ ~acc.state.dumbzoneCrossed
  THEN [ state  |-> acc.state,
         events |-> Append(acc.events,
                      Emit(cfg, point.t, "critical", "dumbzone_entered",
                           [pct |-> point.pct, threshold |-> cfg.dumbZoneThreshold])) ]
  ELSE acc

StepDumbzone(cfg, acc, point) ==
  IF point.pct >= cfg.dumbZoneThreshold /\ ~acc.state.dumbzoneCrossed
  THEN [ state  |-> [acc.state EXCEPT !.dumbzoneCrossed = TRUE],
         events |-> Append(acc.events,
                      Emit(cfg, point.t, "critical", "dumbzone_entered",
                           [pct |-> point.pct, threshold |-> cfg.dumbZoneThreshold])) ]
  ELSE acc

StepConsecutive_NoReset(cfg, acc, point) ==
  IF point.pct >= cfg.dumbZoneThreshold
  THEN [acc EXCEPT !.state.consecutiveDumbZoneTurns = @ + 1]
  ELSE acc

StepConsecutive(cfg, acc, point) ==
  IF point.pct >= cfg.dumbZoneThreshold
  THEN [acc EXCEPT !.state.consecutiveDumbZoneTurns = @ + 1]
  ELSE [acc EXCEPT !.state.consecutiveDumbZoneTurns = 0]

StepLingering_Geq(cfg, acc, point) ==
  IF acc.state.consecutiveDumbZoneTurns >= cfg.maxTurnsInDumbZone
  THEN [ acc EXCEPT !.events = Append(@,
           Emit(cfg, point.t, "critical", "dumbzone_lingering",
                [consecutiveTurns |-> acc.state.consecutiveDumbZoneTurns,
                 max |-> cfg.maxTurnsInDumbZone])) ]
  ELSE acc

StepLingering(cfg, acc, point) ==
  IF acc.state.consecutiveDumbZoneTurns > cfg.maxTurnsInDumbZone
  THEN [ acc EXCEPT !.events = Append(@,
           Emit(cfg, point.t, "critical", "dumbzone_lingering",
                [consecutiveTurns |-> acc.state.consecutiveDumbZoneTurns,
                 max |-> cfg.maxTurnsInDumbZone])) ]
  ELSE acc

StepScopeCreep(cfg, acc, point) ==
  IF acc.state.turnCount > cfg.maxTurnsTotal
  THEN [ acc EXCEPT !.events = Append(@,
           Emit(cfg, point.t, "warning", "scope_creep",
                [turns |-> acc.state.turnCount,
                 expectedMax |-> cfg.maxTurnsTotal])) ]
  ELSE acc

(* errorRate = totalToolErrors / totalToolCalls, compared in hundredths;   *)
(* the payload carries the rate as the pair <<errors, calls>>              *)
StepToolErrorSpike_NoGuard(cfg, acc, point) ==
  IF acc.state.totalToolErrors * 100 > cfg.maxToolErrorRate * acc.state.totalToolCalls
  THEN [ acc EXCEPT !.events = Append(@,
           Emit(cfg, point.t, "warning", "tool_error_spike",
                [errorRate |-> <<acc.state.totalToolErrors, acc.state.totalToolCalls>>,
                 maxRate |-> cfg.maxToolErrorRate,
                 totalCalls |-> acc.state.totalToolCalls,
                 totalErrors |-> acc.state.totalToolErrors])) ]
  ELSE acc

StepToolErrorSpike_Geq(cfg, acc, point) ==
  IF acc.state.totalToolCalls > 0
     /\ acc.state.totalToolErrors * 100 >= cfg.maxToolErrorRate * acc.state.totalToolCalls
  THEN [ acc EXCEPT !.events = Append(@,
           Emit(cfg, point.t, "warning", "tool_error_spike",
                [errorRate |-> <<acc.state.totalToolErrors, acc.state.totalToolCalls>>,
                 maxRate |-> cfg.maxToolErrorRate,
                 totalCalls |-> acc.state.totalToolCalls,
                 totalErrors |-> acc.state.totalToolErrors])) ]
  ELSE acc

StepToolErrorSpike(cfg, acc, point) ==
  IF acc.state.totalToolCalls > 0
     /\ acc.state.totalToolErrors * 100 > cfg.maxToolErrorRate * acc.state.totalToolCalls
  THEN [ acc EXCEPT !.events = Append(@,
           Emit(cfg, point.t, "warning", "tool_error_spike",
                [errorRate |-> <<acc.state.totalToolErrors, acc.state.totalToolCalls>>,
                 maxRate |-> cfg.maxToolErrorRate,
                 totalCalls |-> acc.state.totalToolCalls,
                 totalErrors |-> acc.state.totalToolErrors])) ]
  ELSE acc

EvaluateTurn_ThresholdsFirst(cfg, st, point, toolCalls, toolErrors) ==
  LET a0 == StepCount([state |-> st, events |-> << >>], toolCalls, toolErrors)
      a1 == StepStarted(cfg, a0, point)
      a2 == StepWarning(cfg, a1, point)
      a3 == StepDumbzone(cfg, a2, point)
      a4 == StepCompaction(cfg, a3, point)
      a5 == StepConsecutive(cfg, a4, point)
      a6 == StepLingering(cfg, a5, point)
      a7 == StepScopeCreep(cfg, a6, point)
      a8 == StepToolErrorSpike(cfg, a7, point)
  IN [ state  |-> [a8.state EXCEPT !.prevPct = point.pct],
       events |-> a8.events ]

EvaluateTurn(cfg, st, point, toolCalls, toolErrors) ==
  LET a0 == StepCount([state |-> st, events |-> << >>], toolCalls, toolErrors)
      a1 == StepStarted(cfg, a0, point)
      a2 == StepCompaction(cfg, a1, point)
      a3 == StepWarning(cfg, a2, point)
      a4 == StepDumbzone(cfg, a3, point)
      a5 == StepConsecutive(cfg, a4, point)
      a6 == StepLingering(cfg, a5, point)
      a7 == StepScopeCreep(cfg, a6, point)
      a8 == StepToolErrorSpike(cfg, a7, point)
  IN [ state  |-> [a8.state EXCEPT !.prevPct = point.pct],
       events |-> a8.events ]

(* complete(timestamp): the final summary event.  It reads turnCount and   *)
(* prevPct and assigns nothing.                                            *)
Complete_ResetsLatches(cfg, st, timestamp) ==
  [ state  |-> [st EXCEPT !.warningCrossed = FALSE, !.dumbzoneCrossed = FALSE],
    event  |-> Emit(cfg, timestamp, "info", "agent_completed",
                    [totalTurns |-> st.turnCount, finalPct |-> st.prevPct]) ]

Complete(cfg, st, timestamp) ==
  [ state  |-> st,
    event  |-> Emit(cfg, timestamp, "info", "agent_completed",
                    [totalTurns |-> st.turnCount, finalPct |-> st.prevPct]) ]

----------------------------------------------------------------------------
(* The state machine: one evaluator, fed one point per step.  points and   *)
(* emitted record the calls made so far: points[i] is the i-th point and   *)
(* emitted[i] the list the i-th call returned.                             *)

(* Idle values of the variables a specification does not use *)
NoCall == [fn |-> "none"]

NoResult == [status |-> "none"]

SessionIdle == tools = << >> /\ completed = << >>

AgentsIdle == evaluators = << >> /\ heap = << >> /\ agentLog = << >>

CallIdle == call = NoCall /\ result = NoResult

(* fileStates.get(filePath) ?? { byteOffset: 0, remainder: '' } *)
NoFileState == [byteOffset |-> 0, remainder |-> << >>]

StoreIdle ==
  /\ file = << >> /\ fileState = NoFileState /\ delivered = << >>
  /\ messages = << >> /\ diagnostic_events = << >>
  /\ dbLog = << >> /\ allEvents = << >>

(* no object constructed *)
NoObject == [constructed |-> FALSE]

ObjIdle ==
  /\ sse = NoObject /\ watcher = NoObject /\ monitor = NoObject /\ runtime = NoObject

EvalIdle ==
  /\ config = NewConfig([agentId |-> "idle"])
  /\ state = NewState
  /\ points = << >>
  /\ emitted = << >>

(* The point of a turn: pct of a window of DEFAULT_CONTEXT_LIMIT tokens *)
DEFAULT_CONTEXT_LIMIT == 200000

PointAt(t, pct) ==
  [t |-> t, abs |-> (pct * DEFAULT_CONTEXT_LIMIT) \div 100, pct |-> pct]

Init ==
  /\ \E partial \in ConfigInputs : config = NewConfig(partial)
  /\ state = NewState
  /\ points = << >>
  /\ emitted = << >>
  /\ SessionIdle /\ AgentsIdle /\ CallIdle /\ StoreIdle /\ ObjIdle

Turn ==
  \E pct \in PctValues, tool \in ToolInputs :
    /\ Len(points) < MaxTurns
    /\ state.totalToolCalls + tool[1] <= MaxToolCalls
    /\ LET point == PointAt(Len(points) + 1, pct)
           r == EvaluateTurn(config, state, point, tool[1], tool[2])
       IN /\ state' = r.state
          /\ emitted' = Append(emitted, r.events)
          /\ points' = Append(points, point)
    /\ UNCHANGED <<config, sessionVars, agentVars, callVars, storeVars, objVars>>

Next == Turn

Spec == Init /\ [][Next]_vars

----------------------------------------------------------------------------
(* Reading the record of the calls made so far *)

Turns == 1..Len(points)

Pct(i) == points[i].pct

Emits(i, type) == \E k \in 1..Len(emitted[i]) : emitted[i][k].type = type

CountOf(i, type) ==
  Cardinality({k \in 1..Len(emitted[i]) : emitted[i][k].type = type})

EventsOf(i, type) ==
  {emitted[i][k] : k \in {n \in 1..Len(emitted[i]) : emitted[i][n].type = type}}

(* the pct fell by more than the drop threshold from turn i-1 to turn i *)
DropAt(i) == i > 1 /\ Pct(i - 1) - Pct(i) > COMPACTION_DROP_THRESHOLD

(* the first turn of the compaction-free run turn i lies in: the last turn *)
(* up to i that begins with a drop, or turn 1                              *)
RunStart(i) ==
  CHOOSE j \in 1..i : (j = 1 \/ DropAt(j)) /\ \A k \in (j + 1)..i : ~DropAt(k)

(* the same, read from the events: the last turn up to i that emitted      *)
(* compaction_detected, or turn 1                                          *)
LastCompaction(i) ==
  CHOOSE j \in 1..i :
    /\ j = 1 \/ Emits(j, "compaction_detected")
    /\ \A k \in (j + 1)..i : ~Emits(k, "compaction_detected")

(* number of consecutive turns, ending with turn i, with pct >= threshold, *)
(* counted from turn `from` on                                             *)
RunLength(i, from, threshold) ==
  Cardinality({j \in from..i : \A k \in j..i : Pct(k) >= threshold})

WarningOrCritical(e) == e.severity \in {"warning", "critical"}

----------------------------------------------------------------------------
(* C1: in a run of turns without a compaction (no drop > 0.05 between      *)
(* consecutive pct values), counted from the evaluator's creation or from  *)
(* the turn the last drop ended on, warning_threshold_crossed is emitted   *)
(* exactly once: on the first turn with pct >= warningThreshold (equality  *)
(* counts), and on no later turn of the run.                               *)
C1_WarningOncePerRun ==
  \A i \in Turns :
    CountOf(i, "warning_threshold_crossed") =
      IF /\ Pct(i) >= config.warningThreshold
         /\ \A j \in RunStart(i)..(i - 1) : Pct(j) < config.warningThreshold
      THEN 1 ELSE 0

C1_Witness ==
  \E i, j \in Turns :
    /\ i + 1 < j
    /\ RunStart(j) <= i
    /\ Pct(i) = config.warningThreshold
    /\ Emits(i, "warning_threshold_crossed")
    /\ \A k \in (i + 1)..j :
         Pct(k) >= config.warningThreshold /\ ~Emits(k, "warning_threshold_crossed")

(* C2 as stated: after a turn that emits compaction_detected, the first    *)
(* LATER turn with pct >= warningThreshold emits warning_threshold_crossed *)
(* and the first later turn with pct >= dumbZoneThreshold emits            *)
(* dumbzone_entered.                                                       *)
C2_FirstLaterTurnReEmits ==
  \A c \in Turns :
    Emits(c, "compaction_detected") =>
      \A i \in (c + 1)..Len(points) :
        /\ ( /\ Pct(i) >= config.warningThreshold
             /\ \A j \in (c + 1)..(i - 1) : Pct(j) < config.warningThreshold )
           => Emits(i, "warning_threshold_crossed")
        /\ ( /\ Pct(i) >= config.dumbZoneThreshold
             /\ \A j \in (c + 1)..(i - 1) : Pct(j) < config.dumbZoneThreshold )
           => Emits(i, "dumbzone_entered")

(* C2, amended: after a turn that emits compaction_detected both sticky    *)
(* flags are cleared: the first turn AT OR AFTER the compaction turn with  *)
(* pct >= warningThreshold emits warning_threshold_crossed again, and the  *)
(* first such turn with pct >= dumbZoneThreshold emits dumbzone_entered    *)
(* again, whatever was emitted before the compaction.                      *)
C2_ReEmitsAfterCompaction ==
  \A c \in Turns :
    Emits(c, "compaction_detected") =>
      \A i \in c..Len(points) :
        /\ ( /\ Pct(i) >= config.warningThreshold
             /\ \A j \in c..(i - 1) : Pct(j) < config.warningThreshold )
           => Emits(i, "warning_threshold_crossed")
        /\ ( /\ Pct(i) >= config.dumbZoneThreshold
             /\ \A j \in c..(i - 1) : Pct(j) < config.dumbZoneThreshold )
           => Emits(i, "dumbzone_entered")

C2_Witness ==
  \E b, c, i \in Turns :
    /\ b < c /\ c < i
    /\ Emits(b, "warning_threshold_crossed") /\ Emits(b, "dumbzone_entered")
    /\ Emits(c, "compaction_detected")
    /\ Pct(c) < config.warningThreshold
    /\ Emits(i, "warning_threshold_crossed") /\ Emits(i, "dumbzone_entered")

(* C3: compaction_detected is emitted on a turn iff it is not the first    *)
(* turn and previousPct - currentPct > 0.05 (a drop of exactly 0.05, a     *)
(* smaller drop or a rise never emits it); its payload is before = the     *)
(* previous turn's pct, after = this turn's pct.                           *)
C3_CompactionIffDrop ==
  \A i \in Turns :
    /\ CountOf(i, "compaction_detected") = IF DropAt(i) THEN 1 ELSE 0
    /\ \A e \in EventsOf(i, "compaction_detected") :
         /\ e.data = [before |-> Pct(i - 1), after |-> Pct(i)]
         /\ e.severity = "info"

C3_Witness ==
  \E i, j \in Turns :
    /\ i > 1
    /\ Pct(i - 1) - Pct(i) = COMPACTION_DROP_THRESHOLD
    /\ ~Emits(i, "compaction_detected")
    /\ Emits(j, "compaction_detected")

(* C4 as stated: dumbzone_lingering is emitted exactly on the turns on     *)
(* which the counter exceeds maxTurnsInDumbZone, that is on the            *)
(* (maxTurnsInDumbZone+1)-th consecutive turn with pct >= dumbZoneThreshold *)
(* and on each following turn that stays in the zone.                      *)
C4_LingeringByConsecutiveTurns ==
  \A i \in Turns :
    Emits(i, "dumbzone_lingering")
      <=> RunLength(i, 1, config.dumbZoneThreshold) > config.maxTurnsInDumbZone

(* C4, amended: the consecutive turns are counted from the last compaction *)
(* turn on (that turn included): dumbzone_lingering (critical) is emitted  *)
(* on every turn that is at least the (maxTurnsInDumbZone+1)-th            *)
(* consecutive turn with pct >= dumbZoneThreshold since then, on each      *)
(* such turn and not only once, and on no other turn; that number of turns *)
(* is the value of the counter.                                            *)
C4_LingeringSinceCompaction ==
  /\ \A i \in Turns :
       /\ CountOf(i, "dumbzone_lingering") =
            IF RunLength(i, RunStart(i), config.dumbZoneThreshold)
                 > config.maxTurnsInDumbZone
            THEN 1 ELSE 0
       /\ \A e \in EventsOf(i, "dumbzone_lingering") : e.severity = "critical"
  /\ Len(points) > 0 =>
       state.consecutiveDumbZoneTurns
         = RunLength(Len(points), RunStart(Len(points)), config.dumbZoneThreshold)

C4_Witness ==
  \E i \in Turns :
    /\ i > 1
    /\ i + 1 \in Turns
    /\ ~Emits(i - 1, "dumbzone_lingering")
    /\ Pct(i - 1) >= config.dumbZoneThreshold
    /\ Emits(i, "dumbzone_lingering")
    /\ Emits(i + 1, "dumbzone_lingering")

(* C5 as stated: if no point's pct exceeds warningThreshold, no turn emits  *)
(* an event of severity warning or critical, other than agent_started or   *)
(* unmatched_agent on the first turn.                                      *)
C5_QuietAtOrBelowWarning ==
  (\A i \in Turns : Pct(i) <= config.warningThreshold) =>
    \A i \in Turns : \A k \in 1..Len(emitted[i]) :
      WarningOrCritical(emitted[i][k]) =>
        i = 1 /\ emitted[i][k].type \in {"agent_started", "unmatched_agent"}

(* C5, amended: if every point's pct is strictly below warningThreshold    *)
(* and warningThreshold <= dumbZoneThreshold, the only events of severity  *)
(* warning or critical any turn emits are unmatched_agent on the first     *)
(* turn and the events that do not depend on the thresholds being reached: *)
(* compaction_insufficient, scope_creep and tool_error_spike.              *)
C5_QuietBelowWarning ==
  ( /\ config.warningThreshold <= config.dumbZoneThreshold
    /\ \A i \in Turns : Pct(i) < config.warningThreshold ) =>
    \A i \in Turns : \A k \in 1..Len(emitted[i]) :
      WarningOrCritical(emitted[i][k]) =>
        \/ i = 1 /\ emitted[i][k].type = "unmatched_agent"
        \/ emitted[i][k].type
             \in {"compaction_insufficient", "scope_creep", "tool_error_spike"}

C5_Witness ==
  /\ Len(points) >= 3
  /\ config.warningThreshold <= config.dumbZoneThreshold
  /\ \A i \in Turns : Pct(i) < config.warningThreshold
  /\ \E i \in Turns : Pct(i) > config.compactionTarget
  /\ \E i \in Turns : Emits(i, "compaction_insufficient")
  /\ \E i \in Turns : Emits(i, "scope_creep")

(* the place of each event type in the list a turn returns *)
Rank(type) ==
  CASE type = "agent_started"             -> 1
    [] type = "unmatched_agent"           -> 2
    [] type = "compaction_detected"       -> 3
    [] type = "compaction_insufficient"   -> 4
    [] type = "warning_threshold_crossed" -> 5
    [] type = "dumbzone_entered"          -> 6
    [] type = "dumbzone_lingering"        -> 7
    [] type = "scope_creep"               -> 8
    [] type = "tool_error_spike"          -> 9
    [] OTHER                              -> 0

(* C6: the compaction check runs before the threshold checks of the same   *)
(* call: a turn that emits compaction_detected with pct still >=           *)
(* warningThreshold (resp. >= dumbZoneThreshold) also returns              *)
(* warning_threshold_crossed (resp. dumbzone_entered), after it in the     *)
(* list; every returned list holds its events in the order agent_started,  *)
(* unmatched_agent, compaction_detected, compaction_insufficient,          *)
(* warning_threshold_crossed, dumbzone_entered, dumbzone_lingering,        *)
(* scope_creep, tool_error_spike, each type at most once.                  *)
C6_OrderWithinTurn ==
  \A i \in Turns :
    /\ \A k \in 1..Len(emitted[i]) : Rank(emitted[i][k].type) > 0
    /\ \A k \in 1..(Len(emitted[i]) - 1) :
         Rank(emitted[i][k].type) < Rank(emitted[i][k + 1].type)
    /\ Emits(i, "compaction_detected") =>
         /\ Pct(i) >= config.warningThreshold => Emits(i, "warning_threshold_crossed")
         /\ Pct(i) >= config.dumbZoneThreshold => Emits(i, "dumbzone_entered")

C6_Witness ==
  \E b, i \in Turns :
    /\ b < i
    /\ Emits(b, "warning_threshold_crossed") /\ Emits(b, "dumbzone_entered")
    /\ \E k \in 1..Len(emitted[i]) :
         /\ k + 2 <= Len(emitted[i])
         /\ emitted[i][k].type = "compaction_detected"
         /\ emitted[i][k + 1].type = "compaction_insufficient"
         /\ emitted[i][k + 2].type = "warning_threshold_crossed"
    /\ Emits(i, "dumbzone_entered")

(* C7: compaction_insufficient (warning) is emitted on a turn iff          *)
(* compaction_detected is emitted on that turn and the turn's pct is       *)
(* strictly greater than compactionTarget: never without                   *)
(* compaction_detected, and not when the pct is at or below the target.    *)
C7_InsufficientIffAboveTarget ==
  \A i \in Turns :
    /\ CountOf(i, "compaction_insufficient") =
         IF Emits(i, "compaction_detected") /\ Pct(i) > config.compactionTarget
         THEN 1 ELSE 0
    /\ \A e \in EventsOf(i, "compaction_insufficient") :
         /\ e.severity = "warning"
         /\ e.data = [pct |-> Pct(i), target |-> config.compactionTarget]

C7_Witness ==
  \E i, j, n \in Turns :
    /\ Emits(i, "compaction_detected")
    /\ Pct(i) = config.compactionTarget
    /\ ~Emits(i, "compaction_insufficient")
    /\ Emits(j, "compaction_detected")
    /\ Emits(j, "compaction_insufficient")
    /\ Pct(n) > config.compactionTarget
    /\ ~Emits(n, "compaction_detected")
    /\ ~Emits(n, "compaction_insufficient")

(* C8: dumbzone_entered (critical) is emitted exactly on the first turn    *)
(* with pct >= dumbZoneThreshold since the evaluator was created or since  *)
(* the last compaction, and not again on later turns at or above the       *)
(* threshold until a compaction resets the flag.                           *)
C8_DumbzoneEnteredOncePerRun ==
  \A i \in Turns :
    /\ CountOf(i, "dumbzone_entered") =
         IF /\ Pct(i) >= config.dumbZoneThreshold
            /\ \A j \in LastCompaction(i)..(i - 1) : Pct(j) < config.dumbZoneThreshold
         THEN 1 ELSE 0
    /\ \A e \in EventsOf(i, "dumbzone_entered") : e.severity = "critical"

C8_Witness ==
  \E i, j \in Turns :
    /\ i < j
    /\ LastCompaction(j) <= i
    /\ Pct(i) = config.dumbZoneThreshold
    /\ Emits(i, "dumbzone_entered")
    /\ \A k \in (i + 1)..j :
         Pct(k) >= config.dumbZoneThreshold /\ ~Emits(k, "dumbzone_entered")
    /\ \E c \in Turns : c > j /\ Emits(c, "compaction_detected")
                              /\ Emits(c, "dumbzone_entered")

C10_ScopeCreepPastExpectedTurns ==
  config.expectedTurns # << >> =>
    \A i \in Turns : Emits(i, "scope_creep") <=> i > config.expectedTurns[2]

----------------------------------------------------------------------------
(* SpecSession: one evaluator over a session.  Every turn carries the tool *)
(* statistics of its tool results; complete() may be called at any time.   *)
(* tools[i] is the <<toolCalls, toolErrors>> of the i-th turn;             *)
(* completed[k] is what the k-th complete() returned and the number of     *)
(* turns evaluated before it.                                              *)

MaxSessionTurns == 3

MaxCompletes == 1

SessionPct == {30, 85}

SessionTools == {<<0, 0>>, <<1, 0>>, <<1, 1>>, <<5, 0>>}

SessionConfigs ==
  { [ agentId |-> "test" ],
    [ agentId |-> "test", profileId |-> "p1",
      warningThreshold |-> 70, dumbZoneThreshold |-> 85,
      compactionTarget |-> 50, maxToolErrorRate |-> 50 ] }

InitSession ==
  /\ \E partial \in SessionConfigs : config = NewConfig(partial)
  /\ state = NewState
  /\ points = << >>
  /\ emitted = << >>
  /\ tools = << >>
  /\ completed = << >>
  /\ AgentsIdle /\ CallIdle /\ StoreIdle /\ ObjIdle

SessionTurn ==
  \E pct \in SessionPct, tool \in SessionTools :
    /\ Len(points) < MaxSessionTurns
    /\ LET point == PointAt(Len(points) + 1, pct)
           r == EvaluateTurn(config, state, point, tool[1], tool[2])
       IN /\ state' = r.state
          /\ emitted' = Append(emitted, r.events)
          /\ points' = Append(points, point)
          /\ tools' = Append(tools, tool)
    /\ UNCHANGED <<config, completed, agentVars, callVars, storeVars, objVars>>

SessionComplete ==
  /\ Len(completed) < MaxCompletes
  /\ LET r == Complete(config, state, Len(points))
     IN /\ state' = r.state
        /\ completed' = Append(completed, [after |-> Len(points), event |-> r.event])
  /\ UNCHANGED <<config, points, emitted, tools, agentVars, callVars, storeVars, objVars>>

NextSession == SessionTurn \/ SessionComplete

SpecSession == InitSession /\ [][NextSession]_vars

(* Cumulative tool totals over the first i turns of the record *)
RECURSIVE SumTools(_, _)
SumTools(i, k) == IF i = 0 THEN 0 ELSE SumTools(i - 1, k) + tools[i][k]

CumulativeCalls(i) == SumTools(i, 1)

CumulativeErrors(i) == SumTools(i, 2)

RateAboveMax(i) ==
  /\ CumulativeCalls(i) > 0
  /\ CumulativeErrors(i) * 100 > config.maxToolErrorRate * CumulativeCalls(i)

(* Feeding the first n recorded turns to a fresh evaluator *)
RECURSIVE Replay(_, _, _, _)
Replay(cfg, pts, tls, n) ==
  IF n = 0
  THEN [state |-> NewState, emitted |-> << >>]
  ELSE LET before == Replay(cfg, pts, tls, n - 1)
           r == EvaluateTurn(cfg, before.state, pts[n], tls[n][1], tls[n][2])
       IN [state |-> r.state, emitted |-> Append(before.emitted, r.events)]

----------------------------------------------------------------------------
(* C11: tool_error_spike is emitted on a turn, once, exactly when the      *)
(* cumulative tool calls up to and including that turn are > 0 and         *)
(* cumulative errors / cumulative calls > maxToolErrorRate.  So it is      *)
(* re-emitted on every turn while the cumulative ratio stays above the     *)
(* maximum, stops once later calls bring the ratio back to <= the maximum, *)
(* and a turn with zero cumulative calls never emits it.                   *)
C11_SpikeIffCumulativeRateAbove ==
  \A i \in 1..Len(tools) :
    /\ Emits(i, "tool_error_spike") <=> RateAboveMax(i)
    /\ CountOf(i, "tool_error_spike") <= 1
    /\ CumulativeCalls(i) = 0 => ~Emits(i, "tool_error_spike")

(* a spike, re-emitted on a turn without tool calls, then recovered at     *)
(* exactly the maximum                                                     *)
C11_Witness ==
  /\ Len(tools) = 3
  /\ Emits(1, "tool_error_spike")
  /\ tools[2] = <<0, 0>> /\ Emits(2, "tool_error_spike")
  /\ CumulativeErrors(3) * 100 = config.maxToolErrorRate * CumulativeCalls(3)
  /\ ~Emits(3, "tool_error_spike")

----------------------------------------------------------------------------
(* C12: complete(timestamp) returns one agent_completed event whose        *)
(* totalTurns is the number of evaluateTurn calls made so far and whose    *)
(* finalPct is the pct of the last evaluated point; it leaves the          *)
(* evaluator state unchanged, so the state and every list of events        *)
(* returned by evaluateTurn, before or after it, are those of the same     *)
(* turns with no complete call.                                            *)
C12_CompleteReportsAndKeepsState ==
  /\ \A k \in 1..Len(completed) :
        LET c == completed[k]
        IN /\ c.event.type = "agent_completed"
           /\ c.event.data.totalTurns = c.after
           /\ c.after > 0 => c.event.data.finalPct = points[c.after].pct
  /\ LET alone == Replay(config, points, tools, Len(points))
     IN state = alone.state /\ emitted = alone.emitted

(* complete called after a turn in the warning zone, and a turn evaluated  *)
(* after it                                                                *)
C12_Witness ==
  /\ Len(completed) = 1
  /\ completed[1].after = 1
  /\ Emits(1, "warning_threshold_crossed")
  /\ Len(points) = 2
  /\ Pct(2) >= config.warningThreshold

----------------------------------------------------------------------------
(* detectCompactions: the batch detector over a whole series of points.    *)
(* One record per index i >= 2 whose pct is more than                      *)
(* COMPACTION_DROP_THRESHOLD below the pct of index i - 1, in index order. *)

RECURSIVE CompactionsUpTo_Geq(_, _)
CompactionsUpTo_Geq(pts, n) ==
  IF n <= 1
  THEN << >>
  ELSE LET prev == pts[n - 1]
           curr == pts[n]
           drop == prev.pct - curr.pct
           before == CompactionsUpTo_Geq(pts, n - 1)
       IN IF drop >= COMPACTION_DROP_THRESHOLD
          THEN Append(before, [t |-> curr.t, before |-> prev.abs, after |-> curr.abs])
          ELSE before

DetectCompactions_Geq(pts) == CompactionsUpTo_Geq(pts, Len(pts))

RECURSIVE CompactionsUpTo(_, _)
CompactionsUpTo(pts, n) ==
  IF n <= 1
  THEN << >>
  ELSE LET prev == pts[n - 1]
           curr == pts[n]
           drop == prev.pct - curr.pct
           before == CompactionsUpTo(pts, n - 1)
       IN IF drop > COMPACTION_DROP_THRESHOLD
          THEN Append(before, [t |-> curr.t, before |-> prev.abs, after |-> curr.abs])
          ELSE before

DetectCompactions(pts) == CompactionsUpTo(pts, Len(pts))

RECURSIVE CountEmitted(_, _)
CountEmitted(n, type) ==
  IF n = 0 THEN 0 ELSE CountEmitted(n - 1, type) + CountOf(n, type)

----------------------------------------------------------------------------
(* C13: incremental and batch compaction detection agree index by index.   *)
(* For the points fed so far to a fresh evaluator, the i-th evaluateTurn   *)
(* call emitted compaction_detected iff detectCompactions of the whole     *)
(* sequence holds a record for the transition into point i (its t is       *)
(* point i's and its before/after are the token counts of points i - 1     *)
(* and i), and the number of compaction_detected events equals the length  *)
(* of detectCompactions' result.                                           *)
C13_IncrementalAgreesWithBatch ==
  LET batch == DetectCompactions(points)
  IN /\ \A i \in Turns :
          Emits(i, "compaction_detected")
            <=> ( /\ i > 1
                  /\ \E k \in 1..Len(batch) :
                        batch[k] = [ t |-> points[i].t,
                                     before |-> points[i - 1].abs,
                                     after |-> points[i].abs ] )
     /\ CountEmitted(Len(points), "compaction_detected") = Len(batch)

(* two compactions found by both, and a drop of exactly the threshold      *)
(* found by neither                                                        *)
C13_Witness ==
  /\ Len(DetectCompactions(points)) = 2
  /\ \E i \in Turns :
        /\ i > 1
        /\ Pct(i - 1) - Pct(i) = COMPACTION_DROP_THRESHOLD
        /\ ~Emits(i, "compaction_detected")

----------------------------------------------------------------------------
(* classifyHealth: the grade of one agent from its time series, its events *)
(* and its thresholds.  A call returns a value or throws; expectedTurns    *)
(* left out of the input is NoTurns, and indexing it throws a TypeError.   *)

Returned(value) == [status |-> "returned", value |-> value]

Threw(error) == [status |-> "threw", value |-> error]

NoTurns == << >>

HasEvent(events, type) == \E e \in events : e.type = type

TurnsAtOrAbove(pts, threshold) ==
  Cardinality({i \in 1..Len(pts) : pts[i].pct >= threshold})

GradeOf_NoLingering(input) ==
  LET pts == input.timeSeries.points
      totalTurns == Len(pts)
      turnsInWarning == TurnsAtOrAbove(pts, input.warningThreshold)
      turnsInDumbZone == TurnsAtOrAbove(pts, input.dumbZoneThreshold)
      hasBudgetOverrun == HasEvent(input.events, "budget_overrun")
      hasToolSpike == HasEvent(input.events, "tool_error_spike")
      enteredDz == HasEvent(input.events, "dumbzone_entered")
      hasCompaction == HasEvent(input.events, "compaction_detected")
  IN IF hasBudgetOverrun THEN Returned("unhealthy")
     ELSE IF input.expectedTurns = NoTurns THEN Threw("TypeError")
     ELSE IF totalTurns > input.expectedTurns[2] * 2 THEN Returned("unhealthy")
     ELSE IF hasToolSpike /\ turnsInDumbZone > 0 THEN Returned("unhealthy")
     ELSE IF turnsInWarning * 100 > 20 * totalTurns THEN Returned("degraded")
     ELSE IF enteredDz /\ hasCompaction THEN Returned("degraded")
     ELSE IF hasToolSpike THEN Returned("degraded")
     ELSE IF totalTurns > input.expectedTurns[2] THEN Returned("degraded")
     ELSE Returned("healthy")

GradeOf_DegradedFirst(input) ==
  LET pts == input.timeSeries.points
      totalTurns == Len(pts)
      turnsInWarning == TurnsAtOrAbove(pts, input.warningThreshold)
      turnsInDumbZone == TurnsAtOrAbove(pts, input.dumbZoneThreshold)
      hasLingering == HasEvent(input.events, "dumbzone_lingering")
      hasBudgetOverrun == HasEvent(input.events, "budget_overrun")
      hasToolSpike == HasEvent(input.events, "tool_error_spike")
      enteredDz == HasEvent(input.events, "dumbzone_entered")
      hasCompaction == HasEvent(input.events, "compaction_detected")
  IN IF hasLingering THEN Returned("unhealthy")
     ELSE IF hasBudgetOverrun THEN Returned("unhealthy")
     ELSE IF input.expectedTurns = NoTurns THEN Threw("TypeError")
     ELSE IF turnsInWarning * 100 > 20 * totalTurns THEN Returned("degraded")
     ELSE IF totalTurns > input.expectedTurns[2] * 2 THEN Returned("unhealthy")
     ELSE IF hasToolSpike /\ turnsInDumbZone > 0 THEN Returned("unhealthy")
     ELSE IF enteredDz /\ hasCompaction THEN Returned("degraded")
     ELSE IF hasToolSpike THEN Returned("degraded")
     ELSE IF totalTurns > input.expectedTurns[2] THEN Returned("degraded")
     ELSE Returned("healthy")

(* lines 24-46: the rules, for a time series with at least one point *)
GradeOf_CompactionHeals(input) ==
  LET pts == input.timeSeries.points
      totalTurns == Len(pts)
      turnsInWarning == TurnsAtOrAbove(pts, input.warningThreshold)
      turnsInDumbZone == TurnsAtOrAbove(pts, input.dumbZoneThreshold)
      hasLingering == HasEvent(input.events, "dumbzone_lingering")
      hasBudgetOverrun == HasEvent(input.events, "budget_overrun")
      hasToolSpike == HasEvent(input.events, "tool_error_spike")
      enteredDz == HasEvent(input.events, "dumbzone_entered")
      hasCompaction == HasEvent(input.events, "compaction_detected")
  IN IF hasLingering THEN Returned("unhealthy")
     ELSE IF hasBudgetOverrun THEN Returned("unhealthy")
     ELSE IF input.expectedTurns = NoTurns THEN Threw("TypeError")
     ELSE IF totalTurns > input.expectedTurns[2] * 2 THEN Returned("unhealthy")
     ELSE IF hasToolSpike /\ turnsInDumbZone > 0 THEN Returned("unhealthy")
     ELSE IF enteredDz /\ hasCompaction THEN Returned("degraded")
     ELSE IF hasCompaction THEN Returned("healthy")
     ELSE IF turnsInWarning * 100 > 20 * totalTurns THEN Returned("degraded")
     ELSE IF hasToolSpike THEN Returned("degraded")
     ELSE IF totalTurns > input.expectedTurns[2] THEN Returned("degraded")
     ELSE Returned("healthy")

GradeOf(input) ==
  LET pts == input.timeSeries.points
      totalTurns == Len(pts)
      turnsInWarning == TurnsAtOrAbove(pts, input.warningThreshold)
      turnsInDumbZone == TurnsAtOrAbove(pts, input.dumbZoneThreshold)
      hasLingering == HasEvent(input.events, "dumbzone_lingering")
      hasBudgetOverrun == HasEvent(input.events, "budget_overrun")
      hasToolSpike == HasEvent(input.events, "tool_error_spike")
      enteredDz == HasEvent(input.events, "dumbzone_entered")
      hasCompaction == HasEvent(input.events, "compaction_detected")
  IN IF hasLingering THEN Returned("unhealthy")
     ELSE IF hasBudgetOverrun THEN Returned("unhealthy")
     ELSE IF input.expectedTurns = NoTurns THEN Threw("TypeError")
     ELSE IF totalTurns > input.expectedTurns[2] * 2 THEN Returned("unhealthy")
     ELSE IF hasToolSpike /\ turnsInDumbZone > 0 THEN Returned("unhealthy")
     ELSE IF turnsInWarning * 100 > 20 * totalTurns THEN Returned("degraded")
     ELSE IF enteredDz /\ hasCompaction THEN Returned("degraded")
     ELSE IF hasToolSpike THEN Returned("degraded")
     ELSE IF totalTurns > input.expectedTurns[2] THEN Returned("degraded")
     ELSE Returned("healthy")

ClassifyHealth_NoEmptyCheck(input) == GradeOf(input)

ClassifyHealth(input) ==
  IF Len(input.timeSeries.points) = 0
  THEN Returned("healthy")
  ELSE GradeOf(input)

----------------------------------------------------------------------------
(* SpecHealth: one call of classifyHealth on an input drawn by Init *)

MaxHealthPoints == 5

HealthPct == {30, 70, 90}

HealthEventTypes ==
  { "dumbzone_lingering", "budget_overrun", "tool_error_spike",
    "dumbzone_entered", "compaction_detected", "agent_started" }

HealthThresholds ==
  { [warningThreshold |-> 70, dumbZoneThreshold |-> 85],
    [warningThreshold |-> 85, dumbZoneThreshold |-> 70] }

HealthExpectedTurns == { <<1, 2>>, <<10, 40>> }

SeriesOf(agentId, model, pcts) ==
  [ agentId |-> agentId,
    model |-> model,
    points |-> [i \in 1..Len(pcts) |-> PointAt(i, pcts[i])] ]

AgentEvents(agentId, types) == {[agentId |-> agentId, type |-> type] : type \in types}

InitHealth ==
  /\ \E n \in 0..MaxHealthPoints :
       \E pcts \in [1..n -> HealthPct], types \in SUBSET HealthEventTypes,
          th \in HealthThresholds, expectedTurns \in HealthExpectedTurns :
         call = [ fn |-> "classifyHealth",
                  args |-> [ timeSeries |-> SeriesOf("a", "claude-sonnet-4-5-20250929", pcts),
                             events |-> AgentEvents("a", types),
                             warningThreshold |-> th.warningThreshold,
                             dumbZoneThreshold |-> th.dumbZoneThreshold,
                             expectedTurns |-> expectedTurns ] ]
  /\ result = NoResult
  /\ EvalIdle /\ SessionIdle /\ AgentsIdle /\ StoreIdle /\ ObjIdle

CallClassifyHealth ==
  /\ call.fn = "classifyHealth"
  /\ result = NoResult
  /\ result' = ClassifyHealth(call.args)
  /\ UNCHANGED <<call, evalVars, sessionVars, agentVars, storeVars, objVars>>

NextHealth == CallClassifyHealth

SpecHealth == InitHealth /\ [][NextHealth]_vars

(* Reading the call and its result *)
HealthCalled == call.fn = "classifyHealth" /\ result # NoResult

HealthPoints == call.args.timeSeries.points

HealthHas(type) == \E e \in call.args.events : e.type = type

HealthCeiling == call.args.expectedTurns[2]

(* The rules of the specification, in precedence order *)
HealthRules ==
  << <<HealthHas("dumbzone_lingering"), "unhealthy">>,
     <<HealthHas("budget_overrun"), "unhealthy">>,
     <<Len(HealthPoints) > 2 * HealthCeiling, "unhealthy">>,
     <<HealthHas("tool_error_spike")
         /\ \E i \in 1..Len(HealthPoints) :
              HealthPoints[i].pct >= call.args.dumbZoneThreshold, "unhealthy">>,
     <<5 * Cardinality({i \in 1..Len(HealthPoints) :
                          HealthPoints[i].pct >= call.args.warningThreshold})
         > Len(HealthPoints), "degraded">>,
     <<HealthHas("dumbzone_entered") /\ HealthHas("compaction_detected"), "degraded">>,
     <<HealthHas("tool_error_spike"), "degraded">>,
     <<Len(HealthPoints) > HealthCeiling, "degraded">>,
     <<TRUE, "healthy">> >>

FirstMatchingRule ==
  CHOOSE k \in 1..Len(HealthRules) :
    /\ HealthRules[k][1]
    /\ \A j \in 1..(k - 1) : ~HealthRules[j][1]

----------------------------------------------------------------------------
(* C14 as stated: classifyHealth returns unhealthy whenever the event list *)
(* contains a dumbzone_lingering event, for every time series, every       *)
(* threshold setting and every combination of other events.                *)
C14_UnhealthyWhenLingering ==
  (HealthCalled /\ HealthHas("dumbzone_lingering"))
    => result = Returned("unhealthy")

(* C14 amended: classifyHealth returns unhealthy whenever the event list   *)
(* contains a dumbzone_lingering event and the time series has at least    *)
(* one point, for every threshold setting and every combination of other   *)
(* events.                                                                 *)
C14_UnhealthyWhenLingeringAndTurns ==
  (HealthCalled /\ HealthHas("dumbzone_lingering") /\ Len(HealthPoints) > 0)
    => result = Returned("unhealthy")

(* lingering is the only signal: no other rule would grade unhealthy *)
C14_Witness ==
  /\ HealthCalled
  /\ call.args.events = AgentEvents("a", {"dumbzone_lingering"})
  /\ Len(HealthPoints) = 1
  /\ HealthPoints[1].pct < call.args.warningThreshold
  /\ HealthCeiling = 40
  /\ result = Returned("unhealthy")

----------------------------------------------------------------------------
(* C15: classifyHealth returns healthy for a time series with zero points, *)
(* whatever the events and thresholds.                                     *)
C15_HealthyWhenNoPoints ==
  (HealthCalled /\ Len(HealthPoints) = 0) => result = Returned("healthy")

(* zero points together with events that grade a non-empty series          *)
(* unhealthy                                                               *)
C15_Witness ==
  /\ HealthCalled
  /\ Len(HealthPoints) = 0
  /\ HealthHas("dumbzone_lingering") /\ HealthHas("budget_overrun")
  /\ result = Returned("healthy")

----------------------------------------------------------------------------
(* C16: for a non-empty time series classifyHealth returns the grade of    *)
(* the first matching rule in the order: lingering, budget overrun,        *)
(* turns > 2 x ceiling, tool spike with a point in the dumb zone           *)
(* (unhealthy); warning fraction > 0.20, dumbzone entered and compaction,  *)
(* tool spike, turns > ceiling (degraded); otherwise healthy.              *)
C16_GradeOfFirstMatchingRule ==
  (HealthCalled /\ Len(HealthPoints) > 0)
    => result = Returned(HealthRules[FirstMatchingRule][2])

(* an unhealthy rule and a degraded rule both match, no earlier rule does: *)
(* five turns against a ceiling of 2, more than 20% of them in the warning *)
(* zone                                                                    *)
C16_Witness ==
  /\ HealthCalled
  /\ Len(HealthPoints) = 5
  /\ HealthCeiling = 2
  /\ FirstMatchingRule = 3
  /\ HealthRules[5][1]
  /\ result = Returned("unhealthy")

----------------------------------------------------------------------------
(* Profile matching.  A ProfilesConfig is [defined |-> FALSE] when the     *)
(* argument is undefined, else [defined |-> TRUE, profiles |-> ...] with   *)
(* an optional fallbackThresholds.  A profile is [id, model, alerts].      *)

NoProfilesConfig == [defined |-> FALSE]

Null == "<null>"

(* per-family fallback thresholds *)
FALLBACK_THRESHOLDS ==
  [ opus   |-> [ warningThreshold |-> 60, dumbZoneThreshold |-> 80,
                 compactionTarget |-> 35, maxTurnsInDumbZone |-> 3,
                 maxToolErrorRate |-> 15, maxTurnsTotal |-> 40 ],
    sonnet |-> [ warningThreshold |-> 55, dumbZoneThreshold |-> 75,
                 compactionTarget |-> 30, maxTurnsInDumbZone |-> 3,
                 maxToolErrorRate |-> 15, maxTurnsTotal |-> 40 ],
    haiku  |-> [ warningThreshold |-> 55, dumbZoneThreshold |-> 70,
                 compactionTarget |-> 30, maxTurnsInDumbZone |-> 2,
                 maxToolErrorRate |-> 15, maxTurnsTotal |-> 30 ] ]

(* the family words that model.toLowerCase() includes, for the model       *)
(* strings used as inputs                                                  *)
FamilyWords(model) ==
  CASE model = "claude-sonnet-4-5-20250929" -> {"sonnet"}
    [] model = "claude-opus-4-6" -> {"opus"}
    [] model = "Claude-3-Haiku" -> {"haiku"}
    [] OTHER -> {}

ExtractModelFamily(model) ==
  IF "opus" \in FamilyWords(model) THEN "opus"
  ELSE IF "sonnet" \in FamilyWords(model) THEN "sonnet"
  ELSE IF "haiku" \in FamilyWords(model) THEN "haiku"
  ELSE Null

(* Array.prototype.find: the index of the first element satisfying the     *)
(* test, 0 when there is none                                              *)
FirstIndex(indices) ==
  IF indices = {} THEN 0 ELSE CHOOSE i \in indices : \A j \in indices : i <= j

NoMatch == [matched |-> FALSE]

MatchProfile(agentId, model, pconfig) ==
  IF ~pconfig.defined THEN NoMatch
  ELSE LET profiles == pconfig.profiles
           exact == FirstIndex({i \in 1..Len(profiles) : profiles[i].id = agentId})
           modelMatch == FirstIndex({i \in 1..Len(profiles) : profiles[i].model = model})
       IN IF exact # 0
          THEN [matched |-> TRUE, profile |-> profiles[exact], matchType |-> "exact"]
          ELSE IF modelMatch # 0
          THEN [matched |-> TRUE, profile |-> profiles[modelMatch], matchType |-> "model-fallback"]
          ELSE NoMatch

(* { ...alerts, profileId, matchType } *)
WithMatch(alerts, profileId, matchType) ==
  [profileId |-> profileId, matchType |-> matchType] @@ alerts

GetEffectiveThresholds(agentId, model, pconfig) ==
  LET match == MatchProfile(agentId, model, pconfig)
  IN IF match.matched
     THEN WithMatch(match.profile.alerts, match.profile.id, match.matchType)
     ELSE LET family == ExtractModelFamily(model)
              hasConfigFallback ==
                /\ pconfig.defined
                /\ "fallbackThresholds" \in DOMAIN pconfig
                /\ family # Null
                /\ family \in DOMAIN pconfig.fallbackThresholds
              alerts ==
                IF hasConfigFallback THEN pconfig.fallbackThresholds[family]
                ELSE IF family # Null THEN FALLBACK_THRESHOLDS[family]
                ELSE DEFAULT_ALERTS
          IN WithMatch(alerts, Undefined, "none")

(* SessionMonitor.initEvaluator: the evaluator built from the thresholds *)
InitEvaluator(agentId, model, pconfig) ==
  LET thresholds == GetEffectiveThresholds(agentId, model, pconfig)
  IN NewConfig([ agentId            |-> agentId,
                 profileId          |-> thresholds.profileId,
                 warningThreshold   |-> thresholds.warningThreshold,
                 dumbZoneThreshold  |-> thresholds.dumbZoneThreshold,
                 compactionTarget   |-> thresholds.compactionTarget,
                 maxTurnsInDumbZone |-> thresholds.maxTurnsInDumbZone,
                 maxToolErrorRate   |-> thresholds.maxToolErrorRate,
                 maxTurnsTotal      |-> thresholds.maxTurnsTotal ])

----------------------------------------------------------------------------
(* SpecResolve: thresholds are resolved for one agent against a profiles   *)
(* configuration drawn by Init, an evaluator is built from them and fed    *)
(* its first turn.                                                         *)

MaxProfiles == 2

ResolveAgentIds == {"main", "sub"}

ResolveModels ==
  {"claude-sonnet-4-5-20250929", "claude-opus-4-6", "Claude-3-Haiku", "unknown-model"}

ProfileIds == {"main", "other", ""}

ProfileModels == {"claude-sonnet-4-5-20250929", "claude-opus-4-6"}

(* alerts that tell the profiles apart *)
ProfileAlerts(id, model) ==
  [ warningThreshold   |-> (CASE id = "main" -> 60 [] id = "other" -> 62 [] OTHER -> 64)
                           + (IF model = "claude-opus-4-6" THEN 1 ELSE 0),
    dumbZoneThreshold  |-> 85,
    compactionTarget   |-> 50,
    maxTurnsInDumbZone |-> 3,
    maxToolErrorRate   |-> 15,
    maxTurnsTotal      |-> 30 ]

ResolveProfiles ==
  { [id |-> id, model |-> model, alerts |-> ProfileAlerts(id, model)] :
      id \in ProfileIds, model \in ProfileModels }

ConfigFallbacks ==
  [ sonnet |-> [ warningThreshold |-> 50, dumbZoneThreshold |-> 70,
                 compactionTarget |-> 30, maxTurnsInDumbZone |-> 3,
                 maxToolErrorRate |-> 15, maxTurnsTotal |-> 20 ] ]

ResolveConfigs ==
  {NoProfilesConfig}
  \cup UNION { { [defined |-> TRUE, profiles |-> profiles],
                 [defined |-> TRUE, profiles |-> profiles,
                  fallbackThresholds |-> ConfigFallbacks] } :
               profiles \in UNION {[1..n -> ResolveProfiles] : n \in 0..MaxProfiles} }

InitResolve ==
  /\ \E agentId \in ResolveAgentIds, model \in ResolveModels, pconfig \in ResolveConfigs :
       call = [ fn |-> "initEvaluator",
                args |-> [agentId |-> agentId, model |-> model, config |-> pconfig] ]
  /\ result = NoResult
  /\ EvalIdle /\ SessionIdle /\ AgentsIdle /\ StoreIdle /\ ObjIdle

CallInitEvaluator ==
  /\ call.fn = "initEvaluator"
  /\ result = NoResult
  /\ LET a == call.args
         thresholds == GetEffectiveThresholds(a.agentId, a.model, a.config)
         cfg == InitEvaluator(a.agentId, a.model, a.config)
         first == EvaluateTurn(cfg, NewState, PointAt(1, 30), 0, 0)
     IN result' = Returned([thresholds |-> thresholds, firstTurn |-> first.events])
  /\ UNCHANGED <<call, evalVars, sessionVars, agentVars, storeVars, objVars>>

NextResolve == CallInitEvaluator

SpecResolve == InitResolve /\ [][NextResolve]_vars

(* Reading the call and its result *)
Resolved == call.fn = "initEvaluator" /\ result # NoResult

ResolveProfilesGiven ==
  IF call.args.config.defined THEN call.args.config.profiles ELSE << >>

ExactMatches ==
  {i \in 1..Len(ResolveProfilesGiven) : ResolveProfilesGiven[i].id = call.args.agentId}

ModelMatches ==
  {i \in 1..Len(ResolveProfilesGiven) : ResolveProfilesGiven[i].model = call.args.model}

ProfileMatched == ExactMatches # {} \/ ModelMatches # {}

AlertsReturned ==
  [name \in DOMAIN result.value.thresholds \ {"profileId", "matchType"} |->
     result.value.thresholds[name]]

FirstTurnEmits(type) ==
  \E k \in 1..Len(result.value.firstTurn) : result.value.firstTurn[k].type = type

ResolvesInOrder ==
  /\ ExactMatches # {}
       => /\ AlertsReturned = ResolveProfilesGiven[FirstIndex(ExactMatches)].alerts
          /\ result.value.thresholds.matchType = "exact"
  /\ (ExactMatches = {} /\ ModelMatches # {})
       => /\ AlertsReturned = ResolveProfilesGiven[FirstIndex(ModelMatches)].alerts
          /\ result.value.thresholds.matchType = "model-fallback"
  /\ ~ProfileMatched
       => /\ result.value.thresholds.matchType = "none"
          /\ AlertsReturned \in
               {DEFAULT_ALERTS, ConfigFallbacks.sonnet, FALLBACK_THRESHOLDS.opus,
                FALLBACK_THRESHOLDS.sonnet, FALLBACK_THRESHOLDS.haiku}

ProfileIdDefinedIffMatched ==
  (result.value.thresholds.profileId # Undefined) <=> ProfileMatched

UnmatchedEmittedIffNoMatch ==
  FirstTurnEmits("unmatched_agent") <=> ~ProfileMatched

----------------------------------------------------------------------------
(* C18: getEffectiveThresholds resolves in the order exact id, first       *)
(* profile of the same model, fallback thresholds; it returns a defined    *)
(* profileId iff one of the first two steps matched, so an evaluator built *)
(* from its result emits unmatched_agent iff no profile matched; an exact  *)
(* id match takes precedence over a model match.                           *)
C18_UnmatchedIffNoProfileMatched ==
  Resolved =>
    /\ ResolvesInOrder
    /\ ProfileIdDefinedIffMatched
    /\ UnmatchedEmittedIffNoMatch

----------------------------------------------------------------------------
(* buildSessionSummary.  Its thresholds carry expectedTurns: they come     *)
(* from the getEffectiveThresholds whose fallback is the flat              *)
(* FALLBACK_THRESHOLDS of schemas/constants.ts.  Insights, suggestions and *)
(* the time range are left out: overallHealth does not read them.          *)

FLAT_FALLBACK_THRESHOLDS ==
  [ warningThreshold   |-> 70,
    dumbZoneThreshold  |-> 85,
    compactionTarget   |-> 50,
    maxTurnsInDumbZone |-> 3,
    maxToolErrorRate   |-> 15,
    expectedTurns      |-> <<10, 40>> ]

GetFlatEffectiveThresholds(agentId, model, pconfig) ==
  LET match == MatchProfile(agentId, model, pconfig)
  IN IF match.matched
     THEN WithMatch(match.profile.alerts, match.profile.id, match.matchType)
     ELSE LET fallback ==
                IF pconfig.defined /\ "fallbackThresholds" \in DOMAIN pconfig
                THEN pconfig.fallbackThresholds
                ELSE FLAT_FALLBACK_THRESHOLDS
          IN WithMatch(fallback, Undefined, "none")

AnyHealth(agentSummaries, grade) ==
  \E i \in 1..Len(agentSummaries) : agentSummaries[i].health = grade

OverallHealth_DegradedFirst(agentSummaries) ==
  IF AnyHealth(agentSummaries, "degraded") THEN "degraded"
  ELSE IF AnyHealth(agentSummaries, "unhealthy") THEN "unhealthy"
  ELSE "healthy"

OverallHealth(agentSummaries) ==
  IF AnyHealth(agentSummaries, "unhealthy") THEN "unhealthy"
  ELSE IF AnyHealth(agentSummaries, "degraded") THEN "degraded"
  ELSE "healthy"

HealthOfAgent(ts, events, pconfig) ==
  LET agentEvents == {e \in events : e.agentId = ts.agentId}
      thresholds == GetFlatEffectiveThresholds(ts.agentId, ts.model, pconfig)
  IN ClassifyHealth([ timeSeries |-> ts,
                      events |-> agentEvents,
                      warningThreshold |-> thresholds.warningThreshold,
                      dumbZoneThreshold |-> thresholds.dumbZoneThreshold,
                      expectedTurns |-> Given(thresholds, "expectedTurns", NoTurns) ])

BuildSessionSummary(agents, events, pconfig) ==
  LET health == [i \in 1..Len(agents) |-> HealthOfAgent(agents[i], events, pconfig)]
      agentSummaries ==
        [i \in 1..Len(agents) |->
           [ agentId |-> agents[i].agentId,
             health |-> health[i].value,
             totalTurns |-> Len(agents[i].points) ]]
  IN IF \E i \in 1..Len(agents) : health[i].status = "threw"
     THEN Threw("TypeError")
     ELSE Returned([ agents |-> agentSummaries,
                     overallHealth |-> OverallHealth(agentSummaries) ])

----------------------------------------------------------------------------
(* SpecSummary: one call of buildSessionSummary on agents, events and a    *)
(* profiles configuration drawn by Init                                    *)

MaxAgents == 2

SummaryAgentIds == {"a", "b"}

SummaryPcts == { << >>, <<30>>, <<90>>, <<30, 30, 30>> }

SummarySeries ==
  { SeriesOf(agentId, "claude-sonnet-4-5-20250929", pcts) :
      agentId \in SummaryAgentIds, pcts \in SummaryPcts }

SummaryEventTypes == {"dumbzone_lingering", "tool_error_spike"}

SummaryConfigs ==
  { NoProfilesConfig,
    [ defined |-> TRUE,
      profiles |-> << [ id |-> "a", model |-> "claude-sonnet-4-5-20250929",
                        alerts |-> [ warningThreshold |-> 70, dumbZoneThreshold |-> 85,
                                     compactionTarget |-> 50, maxTurnsInDumbZone |-> 3,
                                     maxToolErrorRate |-> 15, expectedTurns |-> <<1, 1>> ] ] >> ],
    [ defined |-> TRUE,
      profiles |-> << >>,
      fallbackThresholds |-> [ warningThreshold |-> 95, dumbZoneThreshold |-> 99,
                               compactionTarget |-> 50, maxTurnsInDumbZone |-> 3,
                               maxToolErrorRate |-> 15, expectedTurns |-> <<1, 2>> ] ] }

InitSummary ==
  /\ \E n \in 0..MaxAgents :
       \E agents \in [1..n -> SummarySeries],
          evs \in SUBSET (SummaryAgentIds \X SummaryEventTypes),
          pconfig \in SummaryConfigs :
         call = [ fn |-> "buildSessionSummary",
                  args |-> [ agents |-> agents,
                             events |-> {[agentId |-> e[1], type |-> e[2]] : e \in evs},
                             config |-> pconfig ] ]
  /\ result = NoResult
  /\ EvalIdle /\ SessionIdle /\ AgentsIdle /\ StoreIdle /\ ObjIdle

CallBuildSessionSummary ==
  /\ call.fn = "buildSessionSummary"
  /\ result = NoResult
  /\ result' = BuildSessionSummary(call.args.agents, call.args.events, call.args.config)
  /\ UNCHANGED <<call, evalVars, sessionVars, agentVars, storeVars, objVars>>

NextSummary == CallBuildSessionSummary

SpecSummary == InitSummary /\ [][NextSummary]_vars

(* Reading the call and its result *)
Summarised == call.fn = "buildSessionSummary" /\ result # NoResult

GradeRank(grade) ==
  CASE grade = "unhealthy" -> 2 [] grade = "degraded" -> 1 [] grade = "healthy" -> 0

AgentGrades ==
  {result.value.agents[i].health : i \in 1..Len(result.value.agents)}

----------------------------------------------------------------------------
(* C17: buildSessionSummary returns one summary per agent and its          *)
(* overallHealth is the worst grade among them under the order             *)
(* unhealthy > degraded > healthy; with no agents it is healthy.           *)
C17_OverallHealthIsWorstGrade ==
  Summarised =>
    /\ result.status = "returned"
    /\ Len(result.value.agents) = Len(call.args.agents)
    /\ AgentGrades = {} => result.value.overallHealth = "healthy"
    /\ AgentGrades # {} =>
         /\ result.value.overallHealth \in AgentGrades
         /\ \A g \in AgentGrades : GradeRank(g) <= GradeRank(result.value.overallHealth)

(* a degraded agent listed before an unhealthy one *)
C17_Witness ==
  /\ Summarised
  /\ Len(result.value.agents) = 2
  /\ result.value.agents[1].health = "degraded"
  /\ result.value.agents[2].health = "unhealthy"
  /\ result.value.overallHealth = "unhealthy"

----------------------------------------------------------------------------
(* buildAgentTimeSeries.  A transcript line is [type, role, uuid,          *)
(* timestamp, usage]; timestamp is the time new Date(timestamp).getTime()  *)
(* gives (every timestamp parses); usage is NoUsage when the message has   *)
(* none.                                                                   *)

NoUsage == [present |-> FALSE]

Usage(inputTokens, outputTokens) ==
  [present |-> TRUE, input_tokens |-> inputTokens, output_tokens |-> outputTokens]

(* usage?.output_tokens ?? 0 *)
OutputTokens(line) ==
  IF line.usage.present THEN line.usage.output_tokens ELSE 0

(* input + cache tokens; the inputs carry no cache tokens *)
ComputeUsedTokens(usage) == usage.input_tokens

IsAssistantWithUsage(line) ==
  line.type = "assistant" /\ line.role = "assistant" /\ line.usage.present

(* one iteration of the loop over the Map byUuid, kept as the sequence of  *)
(* its values in insertion order                                           *)
KeepLine_Geq(byUuid, line) ==
  LET at == FirstIndex({i \in 1..Len(byUuid) : byUuid[i].uuid = line.uuid})
  IN IF at = 0
     THEN Append(byUuid, line)
     ELSE IF OutputTokens(line) >= OutputTokens(byUuid[at])
     THEN [byUuid EXCEPT ![at] = line]
     ELSE byUuid

KeepLine(byUuid, line) ==
  LET at == FirstIndex({i \in 1..Len(byUuid) : byUuid[i].uuid = line.uuid})
  IN IF at = 0
     THEN Append(byUuid, line)
     ELSE IF OutputTokens(line) > OutputTokens(byUuid[at])
     THEN [byUuid EXCEPT ![at] = line]
     ELSE byUuid

RECURSIVE DeduplicateByUuid(_)
DeduplicateByUuid(lines) ==
  IF lines = << >>
  THEN << >>
  ELSE KeepLine(DeduplicateByUuid(SubSeq(lines, 1, Len(lines) - 1)), lines[Len(lines)])

(* Array.prototype.sort by timestamp difference: a stable sort *)
InsertByTimestamp(sorted, line) ==
  LET k == Cardinality({i \in 1..Len(sorted) : sorted[i].timestamp <= line.timestamp})
  IN SubSeq(sorted, 1, k) \o <<line>> \o SubSeq(sorted, k + 1, Len(sorted))

RECURSIVE SortByTimestamp(_)
SortByTimestamp(lines) ==
  IF lines = << >>
  THEN << >>
  ELSE InsertByTimestamp(SortByTimestamp(SubSeq(lines, 1, Len(lines) - 1)),
                         lines[Len(lines)])

(* every limit of MODEL_LIMITS equals DEFAULT_CONTEXT_LIMIT *)
PointOfLine(line) ==
  LET abs == ComputeUsedTokens(line.usage)
  IN [t |-> line.timestamp, abs |-> abs, pct |-> (abs * 100) \div DEFAULT_CONTEXT_LIMIT]

BuildAgentTimeSeries(agentId, lines) ==
  LET assistantLines == SelectSeq(lines, IsAssistantWithUsage)
      deduped == SortByTimestamp(DeduplicateByUuid(assistantLines))
      pts == [i \in 1..Len(deduped) |-> PointOfLine(deduped[i])]
  IN [ agentId |-> agentId,
       points |-> pts,
       compactions |-> DetectCompactions(pts) ]

----------------------------------------------------------------------------
(* SpecSeries: one call of buildAgentTimeSeries on lines drawn by Init *)

MaxLines == 3

LineUuids == {"u1", "u2"}

LineTimestamps == {1, 2}

LineOutputTokens == {1, 2}

LineInputTokens == {20000, 40000}

LineInputs ==
  { [type |-> "assistant", role |-> "assistant", uuid |-> uuid,
     timestamp |-> timestamp, usage |-> Usage(inputTokens, outputTokens)] :
      uuid \in LineUuids, timestamp \in LineTimestamps,
      inputTokens \in LineInputTokens, outputTokens \in LineOutputTokens }
  \cup
  { [type |-> kind, role |-> kind, uuid |-> uuid,
     timestamp |-> timestamp, usage |-> NoUsage] :
      kind \in {"assistant", "user"}, uuid \in LineUuids,
      timestamp \in LineTimestamps }

InitSeries ==
  /\ \E n \in 0..MaxLines :
       \E lines \in [1..n -> LineInputs] :
         call = [fn |-> "buildAgentTimeSeries", args |-> [agentId |-> "a", lines |-> lines]]
  /\ result = NoResult
  /\ EvalIdle /\ SessionIdle /\ AgentsIdle /\ StoreIdle /\ ObjIdle

CallBuildAgentTimeSeries ==
  /\ call.fn = "buildAgentTimeSeries"
  /\ result = NoResult
  /\ result' = Returned(BuildAgentTimeSeries(call.args.agentId, call.args.lines))
  /\ UNCHANGED <<call, evalVars, sessionVars, agentVars, storeVars, objVars>>

NextSeries == CallBuildAgentTimeSeries

SpecSeries == InitSeries /\ [][NextSeries]_vars

(* Reading the call and its result *)
SeriesBuilt == call.fn = "buildAgentTimeSeries" /\ result # NoResult

LinesGiven == call.args.lines

UsableLines == {i \in 1..Len(LinesGiven) : IsAssistantWithUsage(LinesGiven[i])}

UsableUuids == {LinesGiven[i].uuid : i \in UsableLines}

(* the first line, among those of the uuid, with the highest output_tokens *)
BestLine(uuid) ==
  CHOOSE i \in UsableLines :
    /\ LinesGiven[i].uuid = uuid
    /\ \A j \in UsableLines :
         LinesGiven[j].uuid = uuid =>
           \/ LinesGiven[j].usage.output_tokens < LinesGiven[i].usage.output_tokens
           \/ (LinesGiven[j].usage.output_tokens = LinesGiven[i].usage.output_tokens /\ i <= j)

PointsBuilt == result.value.points

----------------------------------------------------------------------------
(* C19: buildAgentTimeSeries yields exactly one point per distinct uuid    *)
(* among the assistant lines that carry usage, computed from the line with *)
(* the highest output_tokens for that uuid (the first such line when       *)
(* tied), and its points are in non-decreasing timestamp order whatever    *)
(* the order of the input lines.                                           *)
C19_OnePointPerUuidInTimeOrder ==
  SeriesBuilt =>
    /\ Len(PointsBuilt) = Cardinality(UsableUuids)
    /\ \E at \in [UsableUuids -> 1..Len(PointsBuilt)] :
         /\ \A u, v \in UsableUuids : u # v => at[u] # at[v]
         /\ \A u \in UsableUuids :
              LET line == LinesGiven[BestLine(u)]
              IN PointsBuilt[at[u]] =
                   [ t |-> line.timestamp,
                     abs |-> line.usage.input_tokens,
                     pct |-> line.usage.input_tokens \div 2000 ]
    /\ \A k \in 1..(Len(PointsBuilt) - 1) : PointsBuilt[k].t <= PointsBuilt[k + 1].t

(* lines given latest first, a uuid repeated with equal output_tokens and  *)
(* different token counts: the first of the two is the one kept            *)
C19_Witness ==
  /\ SeriesBuilt
  /\ Len(LinesGiven) = 3
  /\ UsableLines = {1, 2, 3}
  /\ LinesGiven[1].uuid = "u1" /\ LinesGiven[3].uuid = "u1" /\ LinesGiven[2].uuid = "u2"
  /\ LinesGiven[1].timestamp = 2 /\ LinesGiven[2].timestamp = 1
  /\ LinesGiven[1].usage.output_tokens = LinesGiven[3].usage.output_tokens
  /\ LinesGiven[1].usage.input_tokens # LinesGiven[3].usage.input_tokens
  /\ Len(PointsBuilt) = 2
  /\ PointsBuilt[2].abs = LinesGiven[1].usage.input_tokens

----------------------------------------------------------------------------
(* SpecAgents: the evaluators of a SessionMonitor.  evaluators is the Map  *)
(* from agent name to its evaluator, [config, ref]; ref is the index in    *)
(* heap of the state object the evaluator's constructor created.           *)
(* agentLog[name] records the turns fed to the agent's evaluator: the      *)
(* point, the tool statistics, the events returned and the position seq    *)
(* of the turn among the turns of all agents.  New lines of one agent's    *)
(* file arrive one assistant line at a time, agents in any order.          *)

MaxAgentTurns == 2

AgentNames == {"main", "sub"}

AgentPct == {30, 85}

AgentTools == {<<0, 0>>, <<1, 1>>}

AgentConfigs ==
  { NoProfilesConfig,
    [ defined |-> TRUE,
      profiles |-> << [ id |-> "main", model |-> "claude-sonnet-4-5-20250929",
                        alerts |-> [ warningThreshold |-> 90, dumbZoneThreshold |-> 95,
                                     compactionTarget |-> 50, maxTurnsInDumbZone |-> 3,
                                     maxToolErrorRate |-> 15, maxTurnsTotal |-> 1 ] ] >> ] }

(* this.state = { ... }: the constructor creates a state object of its own *)
Allocate_Shared(hp) ==
  IF hp = << >>
  THEN [heap |-> <<NewState>>, ref |-> 1]
  ELSE [heap |-> hp, ref |-> 1]

Allocate(hp) ==
  [heap |-> Append(hp, NewState), ref |-> Len(hp) + 1]

LogOf(name) == IF name \in DOMAIN agentLog THEN agentLog[name] ELSE << >>

RECURSIVE TurnsLogged(_)
TurnsLogged(names) ==
  IF names = {}
  THEN 0
  ELSE LET name == CHOOSE n \in names : TRUE
       IN Len(LogOf(name)) + TurnsLogged(names \ {name})

InitAgents ==
  /\ \E pconfig \in AgentConfigs :
       call = [fn |-> "SessionMonitor", args |-> [profilesConfig |-> pconfig]]
  /\ result = NoResult
  /\ evaluators = << >>
  /\ heap = << >>
  /\ agentLog = << >>
  /\ EvalIdle /\ SessionIdle /\ StoreIdle /\ ObjIdle

HandleNewLines ==
  \E name \in AgentNames, pct \in AgentPct, tool \in AgentTools :
    /\ call.fn = "SessionMonitor"
    /\ Len(LogOf(name)) < MaxAgentTurns
    /\ LET isNew == name \notin DOMAIN evaluators
           created == Allocate(heap)
           heap1 == IF isNew THEN created.heap ELSE heap
           evaluator ==
             IF isNew
             THEN [ config |-> InitEvaluator(name, "claude-sonnet-4-5-20250929",
                                             call.args.profilesConfig),
                    ref |-> created.ref ]
             ELSE evaluators[name]
           point == PointAt(Len(LogOf(name)) + 1, pct)
           r == EvaluateTurn(evaluator.config, heap1[evaluator.ref], point, tool[1], tool[2])
           entry == [ point |-> point, tool |-> tool, events |-> r.events,
                      seq |-> TurnsLogged(AgentNames) + 1 ]
       IN /\ heap' = [heap1 EXCEPT ![evaluator.ref] = r.state]
          /\ evaluators' = IF isNew THEN evaluators @@ (name :> evaluator) ELSE evaluators
          /\ agentLog' = IF isNew
                         THEN agentLog @@ (name :> <<entry>>)
                         ELSE [agentLog EXCEPT ![name] = Append(@, entry)]
    /\ UNCHANGED <<call, result, evalVars, sessionVars, storeVars, objVars>>

NextAgents == HandleNewLines

SpecAgents == InitAgents /\ [][NextAgents]_vars

(* The agent's turns processed alone by a fresh evaluator of its config *)
AloneOf(name) ==
  LET log == agentLog[name]
  IN Replay(evaluators[name].config,
            [i \in 1..Len(log) |-> log[i].point],
            [i \in 1..Len(log) |-> log[i].tool],
            Len(log))

----------------------------------------------------------------------------
(* C20: evaluators of different agents share no mutable state.  Whatever   *)
(* the interleaving of the agents' turns, every agent's evaluator state    *)
(* and the events returned for each of its turns are those of a fresh      *)
(* evaluator fed that agent's turns alone, so a turn of one agent changes  *)
(* no field of another agent's state.                                      *)
C20_AgentsEvaluatedIndependently ==
  \A name \in DOMAIN evaluators :
    /\ heap[evaluators[name].ref] = AloneOf(name).state
    /\ [i \in 1..Len(agentLog[name]) |-> agentLog[name][i].events] = AloneOf(name).emitted
    /\ \A other \in DOMAIN evaluators :
         other # name => evaluators[other].ref # evaluators[name].ref

(* turns of two agents alternate; main has crossed its warning threshold   *)
(* and counted a tool error, sub has done neither                          *)
C20_Witness ==
  /\ DOMAIN evaluators = {"main", "sub"}
  /\ Len(agentLog["main"]) = 2 /\ Len(agentLog["sub"]) = 2
  /\ agentLog["main"][1].seq = 1 /\ agentLog["sub"][1].seq = 2
  /\ agentLog["main"][2].seq = 3 /\ agentLog["sub"][2].seq = 4
  /\ heap[evaluators["main"].ref].warningCrossed
  /\ heap[evaluators["main"].ref].totalToolErrors = 2
  /\ ~heap[evaluators["sub"].ref].warningCrossed
  /\ heap[evaluators["sub"].ref].totalToolErrors = 0

----------------------------------------------------------------------------
(* SpecZone: one evaluator fed pct values on both sides of its thresholds, *)
(* also outside [0, 1], under configurations with a short dumb-zone        *)
(* allowance.  No tool calls.                                              *)

MaxZoneTurns == 4

ZonePct == {-20, 30, 75, 80, 85, 95, 150}

ZoneConfigs ==
  { [ agentId |-> "test", profileId |-> "p1",
      warningThreshold |-> 70, dumbZoneThreshold |-> 85,
      compactionTarget |-> 50, maxTurnsInDumbZone |-> 2 ],
    [ agentId |-> "test", profileId |-> "p1",
      warningThreshold |-> 85, dumbZoneThreshold |-> 85,
      compactionTarget |-> 50, maxTurnsInDumbZone |-> 1 ],
    [ agentId |-> "test", profileId |-> "p1",
      warningThreshold |-> 85, dumbZoneThreshold |-> 70,
      compactionTarget |-> 50, maxTurnsInDumbZone |-> 1 ],
    [ agentId |-> "test" ] }

InitZone ==
  /\ \E partial \in ZoneConfigs : config = NewConfig(partial)
  /\ state = NewState
  /\ points = << >>
  /\ emitted = << >>
  /\ SessionIdle /\ AgentsIdle /\ CallIdle /\ StoreIdle /\ ObjIdle

ZoneTurn ==
  \E pct \in ZonePct :
    /\ Len(points) < MaxZoneTurns
    /\ LET point == PointAt(Len(points) + 1, pct)
           r == EvaluateTurn(config, state, point, 0, 0)
       IN /\ state' = r.state
          /\ emitted' = Append(emitted, r.events)
          /\ points' = Append(points, point)
    /\ UNCHANGED <<config, sessionVars, agentVars, callVars, storeVars, objVars>>

NextZone == ZoneTurn

SpecZone == InitZone /\ [][NextZone]_vars

(* the counter the claim describes, after the first i recorded turns *)
RECURSIVE CounterAfter(_)
CounterAfter(i) ==
  IF i = 0 THEN 0
  ELSE IF Pct(i) < config.dumbZoneThreshold THEN 0
  ELSE IF DropAt(i) THEN 1
  ELSE CounterAfter(i - 1) + 1

(* position of the first event of the type in the list of turn i, 0 if none *)
PositionOf(i, type) ==
  LET at == {k \in 1..Len(emitted[i]) : emitted[i][k].type = type}
  IN IF at = {} THEN 0 ELSE CHOOSE k \in at : \A n \in at : k <= n

----------------------------------------------------------------------------
(* C28: after each evaluateTurn call the consecutive-dumb-zone counter is  *)
(* 0 if the turn's pct < dumbZoneThreshold, 1 if pct >= dumbZoneThreshold  *)
(* and the turn was a compaction turn, the previous value + 1 otherwise;   *)
(* so after a compaction that leaves the agent in the dumb zone no         *)
(* dumbzone_lingering is emitted on that turn or on the next               *)
(* maxTurnsInDumbZone - 1 turns.                                           *)
C28_CounterRestartsOnCompaction ==
  /\ state.consecutiveDumbZoneTurns = CounterAfter(Len(points))
  /\ \A i \in Turns :
       (DropAt(i) /\ Pct(i) >= config.dumbZoneThreshold)
         => \A j \in i..(i + config.maxTurnsInDumbZone - 1) :
              j \in Turns => ~Emits(j, "dumbzone_lingering")

(* lingering, then a compaction that stays in the dumb zone: the turn and  *)
(* the one after it are quiet, the second one after it lingers again       *)
C28_Witness ==
  /\ config.maxTurnsInDumbZone = 1
  /\ Len(points) = 4
  /\ Emits(2, "dumbzone_lingering")
  /\ DropAt(3) /\ Pct(3) >= config.dumbZoneThreshold
  /\ ~Emits(3, "dumbzone_lingering")
  /\ Emits(4, "dumbzone_lingering")
  /\ state.consecutiveDumbZoneTurns = 2

----------------------------------------------------------------------------
(* C29: when warningThreshold <= dumbZoneThreshold, dumbzoneCrossed        *)
(* implies warningCrossed in every reachable state, and dumbzone_entered   *)
(* is emitted only after warning_threshold_crossed was emitted earlier in  *)
(* the same turn or on an earlier turn since the last compaction (or since *)
(* creation).                                                              *)
C29_DumbzoneImpliesWarning ==
  config.warningThreshold <= config.dumbZoneThreshold =>
    /\ state.dumbzoneCrossed => state.warningCrossed
    /\ \A i \in Turns :
         Emits(i, "dumbzone_entered") =>
           \/ /\ Emits(i, "warning_threshold_crossed")
              /\ PositionOf(i, "warning_threshold_crossed") < PositionOf(i, "dumbzone_entered")
           \/ \E j \in RunStart(i)..(i - 1) : Emits(j, "warning_threshold_crossed")

(* warning crossed on one turn, the dumb zone entered on a later one, both *)
(* again after a compaction                                                *)
C29_Witness ==
  /\ config.warningThreshold < config.dumbZoneThreshold
  /\ Len(points) = 4
  /\ Emits(1, "warning_threshold_crossed") /\ ~Emits(1, "dumbzone_entered")
  /\ Emits(2, "dumbzone_entered") /\ ~Emits(2, "warning_threshold_crossed")
  /\ DropAt(3) /\ ~state.dumbzoneCrossed
  /\ Emits(3, "warning_threshold_crossed")

----------------------------------------------------------------------------
(* C30: in every reachable state consecutiveDumbZoneTurns > 0 iff the last *)
(* evaluated pct was >= dumbZoneThreshold, consecutiveDumbZoneTurns > 0    *)
(* implies dumbzoneCrossed, turnCount is the number of evaluateTurn calls, *)
(* consecutiveDumbZoneTurns <= turnCount and prevPct is the last evaluated *)
(* pct.                                                                    *)
C30_StateMatchesHistory ==
  /\ state.consecutiveDumbZoneTurns > 0
       <=> (Len(points) > 0 /\ Pct(Len(points)) >= config.dumbZoneThreshold)
  /\ state.consecutiveDumbZoneTurns > 0 => state.dumbzoneCrossed
  /\ state.turnCount = Len(points)
  /\ state.consecutiveDumbZoneTurns <= state.turnCount
  /\ state.consecutiveDumbZoneTurns >= 0
  /\ Len(points) > 0 => state.prevPct = Pct(Len(points))

(* in the dumb zone for two turns, out of it, in again *)
C30_Witness ==
  /\ Len(points) = 4
  /\ Pct(1) >= config.dumbZoneThreshold /\ Pct(2) >= config.dumbZoneThreshold
  /\ Pct(3) < config.dumbZoneThreshold /\ ~DropAt(3)
  /\ Pct(4) >= config.dumbZoneThreshold
  /\ state.consecutiveDumbZoneTurns = 1
  /\ state.dumbzoneCrossed

----------------------------------------------------------------------------
(* SpecTotal: one evaluator fed arguments no caller is meant to give: pct  *)
(* below 0 and above 1, errors reported on a turn without tool calls,      *)
(* timestamps in any order.                                                *)

MaxTotalTurns == 3

TotalPct == {-20, 30, 95, 150}

TotalTimestamps == {1, 2}

TotalTools == {<<0, 0>>, <<0, 1>>, <<2, 1>>}

TotalConfigs ==
  { [ agentId |-> "test" ],
    [ agentId |-> "test", profileId |-> "p1",
      warningThreshold |-> 70, dumbZoneThreshold |-> 85,
      compactionTarget |-> 50, maxTurnsInDumbZone |-> 1, maxTurnsTotal |-> 2 ] }

InitTotal ==
  /\ \E partial \in TotalConfigs : config = NewConfig(partial)
  /\ state = NewState
  /\ points = << >>
  /\ emitted = << >>
  /\ tools = << >>
  /\ completed = << >>
  /\ AgentsIdle /\ CallIdle /\ StoreIdle /\ ObjIdle

TotalTurn ==
  \E pct \in TotalPct, t \in TotalTimestamps, tool \in TotalTools :
    /\ Len(points) < MaxTotalTurns
    /\ LET point == PointAt(t, pct)
           r == EvaluateTurn(config, state, point, tool[1], tool[2])
       IN /\ state' = r.state
          /\ emitted' = Append(emitted, r.events)
          /\ points' = Append(points, point)
          /\ tools' = Append(tools, tool)
    /\ UNCHANGED <<config, completed, agentVars, callVars, storeVars, objVars>>

NextTotal == TotalTurn

SpecTotal == InitTotal /\ [][NextTotal]_vars

DiagnosticEventType ==
  { "agent_started", "agent_completed", "unmatched_agent",
    "warning_threshold_crossed", "dumbzone_entered", "dumbzone_lingering",
    "compaction_detected", "compaction_insufficient", "scope_creep",
    "tool_error_spike", "budget_overrun", "context_limit_approaching" }

Severity == {"info", "warning", "critical"}

WellFormedEvent(e) ==
  /\ DOMAIN e = {"timestamp", "agentId", "profileId", "severity", "type", "data"}
  /\ e.type \in DiagnosticEventType
  /\ e.severity \in Severity
  /\ e.agentId = config.agentId
  /\ e.type = "tool_error_spike" => e.data.totalCalls > 0

WellFormedState(st) ==
  /\ DOMAIN st = DOMAIN NewState
  /\ st.prevPct \in Int
  /\ st.turnCount \in Nat
  /\ st.consecutiveDumbZoneTurns \in Nat
  /\ st.totalToolCalls \in Nat
  /\ st.totalToolErrors \in Nat
  /\ st.warningCrossed \in BOOLEAN
  /\ st.dumbzoneCrossed \in BOOLEAN
  /\ st.started \in BOOLEAN

----------------------------------------------------------------------------
(* C22: evaluateTurn is total.  For any pct (outside [0, 1] too), any      *)
(* non-negative tool counts (zero calls too: no rate is computed from      *)
(* them) and points in any timestamp order, every call returns a list of   *)
(* events and leaves the evaluator in a state a later call works from.     *)
C22_EvaluateTurnTotal ==
  /\ Len(emitted) = Len(points)
  /\ \A i \in Turns :
       \A k \in 1..Len(emitted[i]) :
         /\ WellFormedEvent(emitted[i][k])
         /\ emitted[i][k].timestamp = points[i].t
  /\ WellFormedState(state)

(* pct above 1 then below 0, timestamps going back, errors reported with   *)
(* no tool call so far: three calls, three lists                           *)
C22_Witness ==
  /\ Len(points) = 3
  /\ Pct(1) = 150 /\ Pct(2) = -20 /\ Pct(3) = 150
  /\ points[1].t = 2 /\ points[2].t = 1
  /\ tools[1] = <<0, 1>>
  /\ state.totalToolCalls = 0 /\ state.totalToolErrors > 0
  /\ Emits(2, "compaction_detected")
  /\ Len(emitted[3]) > 0

----------------------------------------------------------------------------
(* SpecTwin: two evaluators constructed with one configuration.  The       *)
(* first is fed turns chosen freely; the second is fed, turn by turn, the  *)
(* pct and tool counts the first was fed, in points that carry timestamps  *)
(* of its own.  agentLog records each evaluator's turns.                   *)

MaxTwinTurns == 3

TwinPct == {30, 85}

TwinTools == {<<0, 0>>, <<1, 1>>}

(* the second evaluator's clock runs either with the first's or later *)
TwinDelays == {0, 10}

TwinConfigs ==
  { [ agentId |-> "twin" ],
    [ agentId |-> "twin", profileId |-> "p1",
      warningThreshold |-> 70, dumbZoneThreshold |-> 85,
      compactionTarget |-> 20, maxTurnsInDumbZone |-> 1, maxTurnsTotal |-> 2 ] }

InitTwin ==
  /\ \E partial \in TwinConfigs :
       LET first == Allocate(<< >>)
           second == Allocate(first.heap)
       IN /\ heap = second.heap
          /\ evaluators = [ name \in {"first", "second"} |->
                              [ config |-> NewConfig(partial),
                                ref |-> IF name = "first" THEN first.ref ELSE second.ref ] ]
  /\ agentLog = [ name \in {"first", "second"} |-> << >> ]
  /\ EvalIdle /\ SessionIdle /\ CallIdle /\ StoreIdle /\ ObjIdle

TwinFeed(name, point, tool) ==
  LET evaluator == evaluators[name]
      r == EvaluateTurn(evaluator.config, heap[evaluator.ref], point, tool[1], tool[2])
  IN /\ heap' = [heap EXCEPT ![evaluator.ref] = r.state]
     /\ agentLog' = [agentLog EXCEPT ![name] =
                       Append(@, [point |-> point, tool |-> tool, events |-> r.events])]
     /\ UNCHANGED <<evaluators, evalVars, sessionVars, callVars, storeVars, objVars>>

TwinFirst ==
  \E pct \in TwinPct, tool \in TwinTools :
    /\ Len(agentLog["first"]) < MaxTwinTurns
    /\ TwinFeed("first", PointAt(Len(agentLog["first"]) + 1, pct), tool)

TwinSecond ==
  \E delay \in TwinDelays :
    /\ Len(agentLog["second"]) < Len(agentLog["first"])
    /\ LET n == Len(agentLog["second"]) + 1
           given == agentLog["first"][n]
       IN TwinFeed("second", PointAt(n + delay, given.point.pct), given.tool)

NextTwin == TwinFirst \/ TwinSecond

SpecTwin == InitTwin /\ [][NextTwin]_vars

(* An event without the fields the inputs do not determine: its id (not    *)
(* modelled) and the timestamp copied from the point                       *)
Content(e) ==
  [ agentId |-> e.agentId, profileId |-> e.profileId,
    severity |-> e.severity, type |-> e.type, data |-> e.data ]

ContentsOf(events) == [k \in 1..Len(events) |-> Content(events[k])]

----------------------------------------------------------------------------
(* C21: the evaluator is a deterministic fold.  Two evaluators created     *)
(* with the same configuration and fed the same sequence of (pct,          *)
(* toolCalls, toolErrors) return, turn by turn, lists of events with the   *)
(* same types, severities, order and payloads, and are in the same state   *)
(* after the same number of turns.                                         *)
C21_DeterministicFold ==
  /\ \A i \in 1..Len(agentLog["second"]) :
       ContentsOf(agentLog["second"][i].events) = ContentsOf(agentLog["first"][i].events)
  /\ Len(agentLog["second"]) = Len(agentLog["first"])
       => heap[evaluators["second"].ref] = heap[evaluators["first"].ref]

(* both have taken three turns with events on each, the second with later  *)
(* timestamps; the states are separate objects that have left NewState     *)
C21_Witness ==
  /\ Len(agentLog["first"]) = 3 /\ Len(agentLog["second"]) = 3
  /\ \A i \in 1..3 : Len(agentLog["first"][i].events) > 0
  /\ \E i \in 1..3 : agentLog["second"][i].point.t # agentLog["first"][i].point.t
  /\ evaluators["second"].ref # evaluators["first"].ref
  /\ heap[evaluators["first"].ref].warningCrossed
  /\ heap[evaluators["first"].ref].totalToolErrors > 0

----------------------------------------------------------------------------
(* SpecRead: a transcript file that grows by appends, read by a            *)
(* FileWatcher.  file is the sequence of its bytes.  A byte is "a" (ASCII  *)
(* text of a JSON document), "x" (ASCII text that does not parse), "sp"    *)
(* (a space), "nl" (0x0A), or one of the two bytes "hi", "lo" of a         *)
(* two-byte UTF-8 character inside a JSON string.  A string is a sequence  *)
(* of characters: "a", "x", "sp", "nl", "ch2" (the two-byte character)     *)
(* and "fffd" (U+FFFD, which decoding puts where bytes are not a whole     *)
(* character).  A parsed line is represented by the text it was parsed     *)
(* from.  delivered collects the lines passed to onLines.                  *)

MaxFileBytes == 5

FileBytes == {"a", "x", "sp", "nl", "hi", "lo"}

(* Buffer.toString('utf-8') *)
RECURSIVE ToStringUtf8(_)
ToStringUtf8(bytes) ==
  IF bytes = << >>
  THEN << >>
  ELSE IF Head(bytes) = "hi" /\ Len(bytes) >= 2 /\ bytes[2] = "lo"
       THEN <<"ch2">> \o ToStringUtf8(SubSeq(bytes, 3, Len(bytes)))
       ELSE IF Head(bytes) \in {"hi", "lo"}
            THEN <<"fffd">> \o ToStringUtf8(Tail(bytes))
            ELSE <<Head(bytes)>> \o ToStringUtf8(Tail(bytes))

(* String.split('\n') *)
RECURSIVE SplitLines(_)
SplitLines(content) ==
  IF \A k \in 1..Len(content) : content[k] # "nl"
  THEN <<content>>
  ELSE LET k == CHOOSE k \in 1..Len(content) :
                  /\ content[k] = "nl"
                  /\ \A j \in 1..(k - 1) : content[j] # "nl"
       IN <<SubSeq(content, 1, k - 1)>> \o SplitLines(SubSeq(content, k + 1, Len(content)))

(* String.trim() *)
RECURSIVE Trim(_)
Trim(raw) ==
  IF raw = << >>
  THEN raw
  ELSE IF Head(raw) = "sp"
       THEN Trim(Tail(raw))
       ELSE IF raw[Len(raw)] = "sp"
            THEN Trim(SubSeq(raw, 1, Len(raw) - 1))
            ELSE raw

(* tryParseJsonlLine(line) returns a line, not null *)
Parses(line) == \A k \in 1..Len(line) : line[k] # "x"

RECURSIVE ParsedLines(_)
ParsedLines(rawLines) ==
  IF rawLines = << >>
  THEN << >>
  ELSE LET trimmed == Trim(Head(rawLines))
       IN IF trimmed = << >> \/ ~Parses(trimmed)
          THEN ParsedLines(Tail(rawLines))
          ELSE <<trimmed>> \o ParsedLines(Tail(rawLines))

ReadJsonlIncremental(buf, fromByte, previousRemainder) ==
  LET newBytes == SubSeq(buf, fromByte + 1, Len(buf))
      newContent == previousRemainder \o ToStringUtf8(newBytes)
      rawLines == SplitLines(newContent)
  IN [ lines |-> ParsedLines(SubSeq(rawLines, 1, Len(rawLines) - 1)),
       bytesRead |-> fromByte + Len(newBytes),
       remainder |-> rawLines[Len(rawLines)] ]

InitRead ==
  /\ file = << >>
  /\ fileState = NoFileState
  /\ delivered = << >>
  /\ messages = << >> /\ diagnostic_events = << >>
  /\ dbLog = << >> /\ allEvents = << >>
  /\ EvalIdle /\ SessionIdle /\ AgentsIdle /\ CallIdle /\ ObjIdle

(* The writer appends a byte.  The file's content is UTF-8 text: the      *)
(* second byte of a two-byte character follows its first byte, always.    *)
AppendByte ==
  \E byte \in FileBytes :
    /\ Len(file) < MaxFileBytes
    /\ (byte = "lo") <=> (file # << >> /\ file[Len(file)] = "hi")
    /\ file' = Append(file, byte)
    /\ UNCHANGED <<fileState, delivered, messages, diagnostic_events, dbLog, allEvents,
                   evalVars, sessionVars, agentVars, callVars, objVars>>

ProcessFile ==
  LET r == ReadJsonlIncremental(file, fileState.byteOffset, fileState.remainder)
  IN /\ call' = [ fn |-> "readJsonlIncremental",
                  args |-> [ size |-> Len(file), fromByte |-> fileState.byteOffset,
                             previousRemainder |-> fileState.remainder ] ]
     /\ result' = Returned(r)
     /\ fileState' = [byteOffset |-> r.bytesRead, remainder |-> r.remainder]
     /\ delivered' = delivered \o r.lines
     /\ UNCHANGED <<file, messages, diagnostic_events, dbLog, allEvents,
                    evalVars, sessionVars, agentVars, objVars>>

NextRead == AppendByte \/ ProcessFile

SpecRead == InitRead /\ [][NextRead]_vars

(* The newline-terminated valid lines of the bytes consumed so far *)
LinesConsumed == ReadJsonlIncremental(SubSeq(file, 1, fileState.byteOffset), 0, << >>).lines

HasReplacement(lines) ==
  \E i \in 1..Len(lines) : \E k \in 1..Len(lines[i]) : lines[i][k] = "fffd"

----------------------------------------------------------------------------
(* C25: for a file that only grows by appends, successive                   *)
(* readJsonlIncremental calls, each given the previous call's bytesRead    *)
(* and remainder, return every newline-terminated valid line exactly once  *)
(* and in file order, wherever the read boundaries fall; a call made when  *)
(* no new bytes were appended returns no lines, and bytesRead never        *)
(* decreases from one call to the next.                                    *)
C25_EveryLineOnceInOrder ==
  /\ delivered = LinesConsumed
  /\ result.status = "returned" =>
       /\ result.value.bytesRead >= call.args.fromByte
       /\ call.args.fromByte = call.args.size => result.value.lines = << >>

(* The same, for the runs in which no line came out with a replacement     *)
(* character: the claim's every other case                                 *)
ReadsAgreeWithoutReplacement ==
  /\ ~HasReplacement(delivered) => delivered = LinesConsumed
  /\ result.status = "returned" =>
       /\ result.value.bytesRead >= call.args.fromByte
       /\ call.args.fromByte = call.args.size => result.value.lines = << >>

----------------------------------------------------------------------------
(* SpecLines: the messages table under insertLines.  messages is the       *)
(* sequence of its rows in rowid order; a row keeps the columns the        *)
(* statement's conflict clause reads or writes, and its key.  SQL NULL in  *)
(* an integer column is SqlNull; no token count is negative.  The lines    *)
(* carry no content blocks, so no tool_calls row is written, and the       *)
(* agent's context_limit is DEFAULT_CONTEXT_LIMIT.  dbLog records every    *)
(* line given to insertLines, with the key it was inserted under.          *)

MaxLinesInserted == 3

SqlNull == -1

(* a > b in SQL: not true when either side is NULL *)
SqlGreater(a, b) == a # SqlNull /\ b # SqlNull /\ a > b

InsertUuids == {"u1", "u2"}

InsertAgents == {"main", "sub"}

InsertUsages == {NoUsage, Usage(20000, 1), Usage(40000, 1), Usage(60000, 2)}

(* the lines of a transcript: user lines carry no usage *)
InsertLineInputs ==
  { [uuid |-> uuid, type |-> "assistant", usage |-> usage] :
      uuid \in InsertUuids, usage \in InsertUsages }
  \cup { [uuid |-> uuid, type |-> "user", usage |-> NoUsage] : uuid \in InsertUuids }

InsertBatches ==
  { <<line>> : line \in InsertLineInputs }
  \cup { <<first, second>> : first \in InsertLineInputs, second \in InsertLineInputs }

MessageKey(projectKey, sessionId, agentId, uuid) ==
  [project_key |-> projectKey, session_id |-> sessionId, agent_id |-> agentId, uuid |-> uuid]

(* the values bound to the statement for one line *)
MessageValues(line) ==
  LET counted == line.usage.present /\ line.type = "assistant"
      absTokens == IF counted THEN ComputeUsedTokens(line.usage) ELSE SqlNull
  IN [ type |-> line.type,
       input_tokens |-> IF line.usage.present THEN line.usage.input_tokens ELSE SqlNull,
       output_tokens |-> IF line.usage.present THEN line.usage.output_tokens ELSE SqlNull,
       abs_tokens |-> absTokens,
       pct |-> IF counted THEN (absTokens * 100) \div DEFAULT_CONTEXT_LIMIT ELSE SqlNull ]

(* INSERT INTO messages ... ON CONFLICT(project_key, session_id, agent_id, *)
(* uuid) DO UPDATE SET ... CASE WHEN excluded.output_tokens >              *)
(* messages.output_tokens ...                                              *)
InsertMsg(table, key, line) ==
  LET excluded == MessageValues(line)
      at == FirstIndex({i \in 1..Len(table) : table[i].key = key})
  IN IF at = 0
     THEN Append(table, [id |-> Len(table) + 1, key |-> key] @@ excluded)
     ELSE IF SqlGreater(excluded.output_tokens, table[at].output_tokens)
          THEN [table EXCEPT ![at].output_tokens = excluded.output_tokens,
                             ![at].abs_tokens = excluded.abs_tokens,
                             ![at].pct = excluded.pct]
          ELSE table

(* the transaction: one statement per line, in order *)
RECURSIVE InsertLines(_, _, _, _, _)
InsertLines(table, lines, projectKey, sessionId, agentId) ==
  IF lines = << >>
  THEN table
  ELSE LET before == InsertLines(table, SubSeq(lines, 1, Len(lines) - 1),
                                 projectKey, sessionId, agentId)
           line == lines[Len(lines)]
       IN InsertMsg(before, MessageKey(projectKey, sessionId, agentId, line.uuid), line)

InitLines ==
  /\ messages = << >>
  /\ dbLog = << >>
  /\ file = << >> /\ fileState = NoFileState /\ delivered = << >>
  /\ diagnostic_events = << >> /\ allEvents = << >>
  /\ EvalIdle /\ SessionIdle /\ AgentsIdle /\ CallIdle /\ ObjIdle

InsertLinesCall ==
  \E lines \in InsertBatches, agentId \in InsertAgents :
    /\ Len(dbLog) + Len(lines) <= MaxLinesInserted
    /\ messages' = InsertLines(messages, lines, "test-project", "sess-001", agentId)
    /\ dbLog' = dbLog \o [ i \in 1..Len(lines) |->
                            [ key |-> MessageKey("test-project", "sess-001", agentId,
                                                 lines[i].uuid),
                              line |-> lines[i] ] ]
    /\ UNCHANGED <<file, fileState, delivered, diagnostic_events, allEvents,
                   evalVars, sessionVars, agentVars, callVars, objVars>>

NextLines == InsertLinesCall

SpecLines == InitLines /\ [][NextLines]_vars

(* positions in dbLog of the lines inserted under a key *)
InsertedUnder(key) == {i \in 1..Len(dbLog) : dbLog[i].key = key}

(* output_tokens of the i-th inserted line, 0 below every count when the   *)
(* line has no usage                                                       *)
OutputOf(i) == OutputTokens(dbLog[i].line)

HasUsage(i) == dbLog[i].line.usage.present

(* the first inserted line, among those under the key, with the highest    *)
(* output_tokens                                                           *)
FirstHighest(key) ==
  LET among == {i \in InsertedUnder(key) : HasUsage(i)}
      top == {i \in among : \A j \in among : OutputOf(j) <= OutputOf(i)}
  IN FirstIndex(top)

RowMatchesHighest(row) ==
  LET best == FirstHighest(row.key)
  IN IF best = 0
     THEN row.output_tokens = SqlNull
     ELSE LET values == MessageValues(dbLog[best].line)
          IN /\ row.output_tokens = values.output_tokens
             /\ row.abs_tokens = values.abs_tokens
             /\ row.pct = values.pct

OneRowPerKey ==
  /\ \A i, j \in 1..Len(messages) : messages[i].key = messages[j].key => i = j
  /\ {messages[i].key : i \in 1..Len(messages)} = {dbLog[i].key : i \in 1..Len(dbLog)}

----------------------------------------------------------------------------
(* C26: after any sequence of insertLines calls the messages table holds   *)
(* exactly one row per (project, session, agent, uuid), and the row's      *)
(* output_tokens is the maximum output_tokens over the lines inserted      *)
(* with that uuid; a later line with lower or equal output_tokens changes  *)
(* neither output_tokens nor abs_tokens nor pct, so the three are those    *)
(* of the first line that had the maximum.                                 *)
C26_RowKeepsHighestOutput ==
  /\ OneRowPerKey
  /\ \A i \in 1..Len(messages) : RowMatchesHighest(messages[i])

(* The same for the rows whose first inserted line carried usage *)
RowsStartedWithUsageKeepHighest ==
  /\ OneRowPerKey
  /\ \A i \in 1..Len(messages) :
       HasUsage(FirstIndex(InsertedUnder(messages[i].key))) => RowMatchesHighest(messages[i])

----------------------------------------------------------------------------
(* SpecEvents: the diagnostic_events table under insertEvents.             *)
(* diagnostic_events is the sequence of its rows in insertion order; id    *)
(* is its primary key, whatever the session.  An event here carries the    *)
(* id that emit() gave it.  dbLog records every event given to             *)
(* insertEvents, with the session it was inserted under.                   *)

MaxEventsInserted == 4

EventIds == {"ev-1", "ev-2"}

EventSessions == {"sess-001", "sess-002"}

EventInputs ==
  { [ id |-> id, timestamp |-> 1, agentId |-> "main", profileId |-> Undefined,
      severity |-> "info", type |-> "agent_started", data |-> NoData ] : id \in EventIds }
  \cup
  { [ id |-> id, timestamp |-> 2, agentId |-> "main", profileId |-> "p1",
      severity |-> "critical", type |-> "dumbzone_entered",
      data |-> [pct |-> 87, threshold |-> 85] ] : id \in EventIds }

EventBatches ==
  { <<event>> : event \in EventInputs }
  \cup { <<first, second>> : first \in EventInputs, second \in EventInputs }

(* event.data ? JSON.stringify(event.data) : null *)
StringifyData(data) ==
  IF data = NoData THEN [null |-> TRUE, json |-> NoData] ELSE [null |-> FALSE, json |-> data]

(* the values bound to the statement for one event *)
EventRow(event, projectKey, sessionId) ==
  [ id |-> event.id,
    timestamp |-> event.timestamp,
    agent_id |-> event.agentId,
    session_id |-> sessionId,
    project_key |-> projectKey,
    profile_id |-> IF event.profileId = Undefined THEN Null ELSE event.profileId,
    severity |-> event.severity,
    type |-> event.type,
    data |-> StringifyData(event.data) ]

(* INSERT OR REPLACE *)
InsertEvent_Replace(table, row) ==
  LET at == FirstIndex({i \in 1..Len(table) : table[i].id = row.id})
  IN IF at = 0 THEN Append(table, row) ELSE [table EXCEPT ![at] = row]

(* INSERT OR IGNORE INTO diagnostic_events *)
InsertEvent(table, row) ==
  IF \E i \in 1..Len(table) : table[i].id = row.id
  THEN table
  ELSE Append(table, row)

(* the transaction: one statement per event, in order *)
RECURSIVE InsertEvents(_, _, _, _)
InsertEvents(table, events, projectKey, sessionId) ==
  IF events = << >>
  THEN table
  ELSE InsertEvent(InsertEvents(table, SubSeq(events, 1, Len(events) - 1), projectKey, sessionId),
                   EventRow(events[Len(events)], projectKey, sessionId))

InitEvents ==
  /\ diagnostic_events = << >>
  /\ dbLog = << >>
  /\ file = << >> /\ fileState = NoFileState /\ delivered = << >>
  /\ messages = << >> /\ allEvents = << >>
  /\ EvalIdle /\ SessionIdle /\ AgentsIdle /\ CallIdle /\ ObjIdle

InsertEventsCall ==
  \E events \in EventBatches, sessionId \in EventSessions :
    /\ Len(dbLog) + Len(events) <= MaxEventsInserted
    /\ diagnostic_events' = InsertEvents(diagnostic_events, events, "test-project", sessionId)
    /\ dbLog' = dbLog \o [ i \in 1..Len(events) |->
                            [event |-> events[i], sessionId |-> sessionId] ]
    /\ UNCHANGED <<file, fileState, delivered, messages, allEvents,
                   evalVars, sessionVars, agentVars, callVars, objVars>>

NextEvents == InsertEventsCall

SpecEvents == InitEvents /\ [][NextEvents]_vars

(* positions in dbLog of the events that came with an id not seen before *)
FirstInserted == {i \in 1..Len(dbLog) : \A j \in 1..(i - 1) : dbLog[j].event.id # dbLog[i].event.id}

RECURSIVE RowsOfFirst(_)
RowsOfFirst(n) ==
  IF n = 0
  THEN << >>
  ELSE IF n \in FirstInserted
       THEN Append(RowsOfFirst(n - 1),
                   EventRow(dbLog[n].event, "test-project", dbLog[n].sessionId))
       ELSE RowsOfFirst(n - 1)

----------------------------------------------------------------------------
(* C27: insertEvents is idempotent on event id.  Inserting an event whose  *)
(* id is already stored leaves diagnostic_events unchanged, so after any   *)
(* insertions, repeated ones too, the table holds each id exactly once,    *)
(* with the content it was first inserted with.                            *)
C27_InsertEventsIdempotent ==
  /\ diagnostic_events = RowsOfFirst(Len(dbLog))
  /\ \A i, j \in 1..Len(diagnostic_events) :
       diagnostic_events[i].id = diagnostic_events[j].id => i = j

(* a list of two events inserted twice, the second time with other         *)
(* content under the same ids and another session: two rows, as first      *)
(* inserted                                                                *)
C27_Witness ==
  /\ Len(dbLog) = 4
  /\ dbLog[1].event.id = "ev-1" /\ dbLog[2].event.id = "ev-2"
  /\ dbLog[3].event.id = "ev-1" /\ dbLog[4].event.id = "ev-2"
  /\ dbLog[3].event.type # dbLog[1].event.type
  /\ dbLog[3].sessionId # dbLog[1].sessionId
  /\ Len(diagnostic_events) = 2
  /\ diagnostic_events[1].type = dbLog[1].event.type
  /\ diagnostic_events[1].session_id = dbLog[1].sessionId

----------------------------------------------------------------------------
(* SpecIds: one evaluator of a SessionMonitor with a database.  Each       *)
(* event gets the id emit() draws, the first eight hexadecimal digits of   *)
(* a random UUID: any member of IdPool.  A turn's events are pushed to     *)
(* allEvents and given to insertEvents; stop() pushes the agent_completed  *)
(* event.                                                                  *)

MaxIdTurns == 2

IdPool == {"1f0c9a3e", "5b7d2e84", "9a41c0d7", "e3f6b215"}

IdPct == {30, 75}

IdConfigs ==
  { [ agentId |-> "main", profileId |-> "p1",
      warningThreshold |-> 70, dumbZoneThreshold |-> 85,
      compactionTarget |-> 50, maxTurnsInDumbZone |-> 3, maxTurnsTotal |-> 40 ] }

(* id: randomUUID().slice(0, 8) *)
WithIds(events, ids) == [k \in 1..Len(events) |-> [id |-> ids[k]] @@ events[k]]

InitIds ==
  /\ \E partial \in IdConfigs : config = NewConfig(partial)
  /\ state = NewState
  /\ points = << >>
  /\ emitted = << >>
  /\ allEvents = << >>
  /\ diagnostic_events = << >>
  /\ file = << >> /\ fileState = NoFileState /\ delivered = << >>
  /\ messages = << >> /\ dbLog = << >>
  /\ SessionIdle /\ AgentsIdle /\ CallIdle /\ ObjIdle

IdsTurn ==
  \E pct \in IdPct :
    /\ Len(points) < MaxIdTurns
    /\ completed = << >>
    /\ LET point == PointAt(Len(points) + 1, pct)
           r == EvaluateTurn(config, state, point, 0, 0)
       IN \E ids \in [1..Len(r.events) -> IdPool] :
            LET turnEvents == WithIds(r.events, ids)
            IN /\ state' = r.state
               /\ points' = Append(points, point)
               /\ emitted' = Append(emitted, turnEvents)
               /\ allEvents' = allEvents \o turnEvents
               /\ diagnostic_events' =
                    InsertEvents(diagnostic_events, turnEvents, "test-project", "sess-001")
    /\ UNCHANGED <<config, file, fileState, delivered, messages, dbLog,
                   sessionVars, agentVars, callVars, objVars>>

IdsStop ==
  /\ completed = << >>
  /\ points # << >>
  /\ \E id \in IdPool :
       LET event == [id |-> id] @@ Complete(config, state, points[Len(points)].t).event
       IN /\ allEvents' = Append(allEvents, event)
          /\ completed' = <<[after |-> Len(points), event |-> event]>>
  /\ UNCHANGED <<evalVars, tools, file, fileState, delivered, messages, diagnostic_events,
                 dbLog, agentVars, callVars, objVars>>

NextIds == IdsTurn \/ IdsStop

SpecIds == InitIds /\ [][NextIds]_vars

----------------------------------------------------------------------------
(* C23: all events produced within one session, by every evaluateTurn and  *)
(* complete call, carry pairwise distinct identifiers.                     *)
C23_IdsPairwiseDistinct ==
  \A i, j \in 1..Len(allEvents) :
    allEvents[i].id = allEvents[j].id => i = j

(* every event a turn produced has its row in diagnostic_events *)
EveryTurnEventStored ==
  \A i \in 1..Len(emitted) : \A k \in 1..Len(emitted[i]) :
    \E n \in 1..Len(diagnostic_events) :
      diagnostic_events[n] = EventRow(emitted[i][k], "test-project", "sess-001")

----------------------------------------------------------------------------
(* generateSuggestions.  A suggestion is [priority, agentId, action]: the  *)
(* action names the rule that pushed it, the message is left out.          *)

Suggestion(priority, agentId, action) ==
  [priority |-> priority, agentId |-> agentId, action |-> action]

PushIf(suggestions, condition, suggestion) ==
  IF condition THEN Append(suggestions, suggestion) ELSE suggestions

(* Math.max(...pcts) > lo && Math.max(...pcts) < hi; the maximum of no     *)
(* value is -Infinity                                                      *)
PeakBetween(pts, lo, hi) ==
  /\ pts # << >>
  /\ LET peakPct == CHOOSE v \in {pts[i].pct : i \in 1..Len(pts)} :
                      \A i \in 1..Len(pts) : pts[i].pct <= v
     IN peakPct > lo /\ peakPct < hi

(* one iteration of the loop over inputs *)
SuggestFor(suggestions, input) ==
  LET unhealthy == input.health = "unhealthy"
      degraded == input.health = "degraded"
      s1 == PushIf(suggestions,
                   unhealthy /\ HasEvent(input.events, "dumbzone_lingering"),
                   Suggestion(1, input.agentId, "Split task or add compaction triggers"))
      s2 == PushIf(s1,
                   unhealthy /\ Len(input.timeSeries.points) > input.expectedTurns[2] * 2,
                   Suggestion(1, input.agentId, "Review task scope and expected turn range"))
      s3 == PushIf(s2, HasEvent(input.events, "budget_overrun"),
                   Suggestion(2, input.agentId, "Adjust budget allocations in profile"))
      s4 == PushIf(s3, HasEvent(input.events, "unmatched_agent"),
                   Suggestion(3, input.agentId, "Add profile to context-profiles.json"))
      s5 == PushIf(s4,
                   degraded /\ PeakBetween(input.timeSeries.points,
                                           input.warningThreshold, input.dumbZoneThreshold),
                   Suggestion(4, input.agentId, "Adjust warningThreshold in profile"))
  IN PushIf(s5, degraded /\ HasEvent(input.events, "tool_error_spike"),
            Suggestion(4, input.agentId, "Investigate tool errors"))

RECURSIVE SuggestForAll(_)
SuggestForAll(inputs) ==
  IF inputs = << >>
  THEN << >>
  ELSE SuggestFor(SuggestForAll(SubSeq(inputs, 1, Len(inputs) - 1)), inputs[Len(inputs)])

(* the coordination suggestion pushed after the loop *)
SuggestCoordination(suggestions, inputs) ==
  LET unhealthyCount == Cardinality({i \in 1..Len(inputs) : inputs[i].health = "unhealthy"})
  IN PushIf(suggestions, Len(inputs) > 1 /\ unhealthyCount > 1,
            Suggestion(5, Undefined, "Review agent coordination strategy"))

(* Array.prototype.sort by priority difference: a stable sort *)
InsertByPriority(sorted, suggestion) ==
  LET k == Cardinality({i \in 1..Len(sorted) : sorted[i].priority <= suggestion.priority})
  IN SubSeq(sorted, 1, k) \o <<suggestion>> \o SubSeq(sorted, k + 1, Len(sorted))

SortByPriority_Unsorted(suggestions) == suggestions

RECURSIVE SortByPriority(_)
SortByPriority(suggestions) ==
  IF suggestions = << >>
  THEN << >>
  ELSE InsertByPriority(SortByPriority(SubSeq(suggestions, 1, Len(suggestions) - 1)),
                        suggestions[Len(suggestions)])

GenerateSuggestions(inputs) ==
  Returned(SortByPriority(SuggestCoordination(SuggestForAll(inputs), inputs)))

----------------------------------------------------------------------------
(* SpecSuggest: one call of generateSuggestions on inputs drawn by Init *)

MaxSuggestInputs == 2

SuggestHealth == {"healthy", "degraded", "unhealthy"}

SuggestEventTypes ==
  { {},
    {"dumbzone_lingering"},
    {"tool_error_spike"},
    {"budget_overrun", "unmatched_agent"},
    {"dumbzone_lingering", "budget_overrun", "unmatched_agent", "tool_error_spike"} }

(* no turn; one turn between the thresholds; more than twice the expected  *)
(* turns, the peak above the dumb zone                                     *)
SuggestPcts == { << >>, <<75>>, <<75, 90, 75>> }

SuggestAgentId(i) == IF i = 1 THEN "a1" ELSE IF i = 2 THEN "a2" ELSE "a3"

SuggestInput(i, health, types, pcts) ==
  [ agentId |-> SuggestAgentId(i),
    health |-> health,
    timeSeries |-> SeriesOf(SuggestAgentId(i), "claude-sonnet-4-5-20250929", pcts),
    events |-> AgentEvents(SuggestAgentId(i), types),
    dumbZoneThreshold |-> 85,
    warningThreshold |-> 70,
    expectedTurns |-> <<1, 1>> ]

InitSuggest ==
  /\ \E n \in 0..MaxSuggestInputs :
       \E health \in [1..n -> SuggestHealth], types \in [1..n -> SuggestEventTypes],
          pcts \in [1..n -> SuggestPcts] :
         call = [ fn |-> "generateSuggestions",
                  args |-> [ inputs |-> [i \in 1..n |->
                                           SuggestInput(i, health[i], types[i], pcts[i])] ] ]
  /\ result = NoResult
  /\ EvalIdle /\ SessionIdle /\ AgentsIdle /\ StoreIdle /\ ObjIdle

CallGenerateSuggestions ==
  /\ call.fn = "generateSuggestions"
  /\ result = NoResult
  /\ result' = GenerateSuggestions(call.args.inputs)
  /\ UNCHANGED <<call, evalVars, sessionVars, agentVars, storeVars, objVars>>

NextSuggest == CallGenerateSuggestions

SpecSuggest == InitSuggest /\ [][NextSuggest]_vars

SuggestCalled == call.fn = "generateSuggestions" /\ result # NoResult

----------------------------------------------------------------------------
(* C24: generateSuggestions returns a list whose priority values are       *)
(* non-decreasing from the first element to the last, for any inputs.      *)
C24_SuggestionsSortedByPriority ==
  SuggestCalled =>
    /\ result.status = "returned"
    /\ \A i, j \in 1..Len(result.value) :
         i < j => result.value[i].priority <= result.value[j].priority

(* the first agent, degraded, gets suggestions of priority 3 and 4, the    *)
(* second, unhealthy, of priority 1 and 2: pushed as 3, 4, 1, 2 and        *)
(* returned as 1, 2, 3, 4                                                  *)
C24_Witness ==
  /\ SuggestCalled
  /\ Len(call.args.inputs) = 2
  /\ call.args.inputs[1].health = "degraded"
  /\ call.args.inputs[2].health = "unhealthy"
  /\ [i \in 1..Len(result.value) |-> result.value[i].priority] = <<1, 2, 3, 4>>
  /\ result.value[1].agentId = "a2" /\ result.value[3].agentId = "a1"

----------------------------------------------------------------------------
(* The grade of the call's time series and thresholds with other events *)
GradeWith(events) == ClassifyHealth([call.args EXCEPT !.events = events])

(* C38: classifyHealth is monotone in the event list.  For a fixed time    *)
(* series and thresholds, the grade with a list of events is never better  *)
(* (healthy < degraded < unhealthy) than the grade with fewer of them.     *)
C38_GradeMonotoneInEvents ==
  HealthCalled =>
    \A fewer \in SUBSET call.args.events :
      /\ GradeWith(fewer).status = "returned"
      /\ GradeRank(GradeWith(fewer).value) <= GradeRank(result.value)

(* a series in the dumb zone within its expected turns: healthy without    *)
(* events, degraded with those but the tool error spike, unhealthy with    *)
(* all of them                                                             *)
C38_Witness ==
  /\ HealthCalled
  /\ HasEvent(call.args.events, "tool_error_spike")
  /\ HasEvent(call.args.events, "dumbzone_entered")
  /\ HasEvent(call.args.events, "compaction_detected")
  /\ result = Returned("unhealthy")
  /\ GradeWith({}) = Returned("healthy")
  /\ GradeWith({e \in call.args.events : e.type # "tool_error_spike"}) = Returned("degraded")

----------------------------------------------------------------------------
(* SseManager.  sse is the manager: clients is the Map of its clients,     *)
(* kept as the sequence of their ids in insertion order, and               *)
(* keepAliveInterval the handle of its interval timer, 0 for null.         *)
(* runtime holds what surrounds it: intervals, the handles of the          *)
(* interval timers that are running, and connection, what a client's       *)
(* write does: "ok" (the payload goes out), "throws", or "cleanup" (the    *)
(* write of GET /events: it catches the failure and calls the cleanup      *)
(* function addClient returned, that is removeClient).                     *)

MaxClients == 2

ClientIds == 1..MaxClients

SsePayloads == {"agent_update", "diagnostic_event"}

NewSseManager == [constructed |-> TRUE, clients |-> << >>, keepAliveInterval |-> 0]

Registered(s) == {s.clients[i] : i \in 1..Len(s.clients)}

(* setInterval: a handle no running timer has *)
NewHandle(rt) == CHOOSE h \in 1..(Cardinality(rt.intervals) + 1) : h \notin rt.intervals

(* clients.delete(id) *)
DeleteClient(s, id) ==
  [s EXCEPT !.clients = SelectSeq(@, LAMBDA c : c # id)]

RemoveClient_StopsTimer(s, rt, id) ==
  LET removed == DeleteClient(s, id)
  IN [ sse |-> removed,
       runtime |-> IF removed.clients = << >>
                   THEN [rt EXCEPT !.intervals = @ \ {s.keepAliveInterval}]
                   ELSE rt ]

RemoveClient(s, rt, id) == [sse |-> DeleteClient(s, id), runtime |-> rt]

(* startKeepAlive *)
StartKeepAlive(s, rt) ==
  LET handle == NewHandle(rt)
  IN [ sse |-> [s EXCEPT !.keepAliveInterval = handle],
       runtime |-> [rt EXCEPT !.intervals = @ \cup {handle}] ]

AddClient(s, rt, id) ==
  LET added == IF id \in Registered(s) THEN s ELSE [s EXCEPT !.clients = Append(@, id)]
      connected == [rt EXCEPT !.connection[id] = "ok"]
  IN IF Len(added.clients) = 1 /\ added.keepAliveInterval = 0
     THEN StartKeepAlive(added, connected)
     ELSE [sse |-> added, runtime |-> connected]

(* for (const [id, client] of this.clients) try { client.write(payload) }  *)
(* catch { this.clients.delete(id) }: the entries are visited in insertion *)
(* order, one deleted before its turn is not visited                       *)
WriteToAll_StopAtThrow(s, rt, order, written) ==
  IF \E i \in 1..Len(order) : rt.connection[order[i]] = "throws"
  THEN LET k == FirstIndex({i \in 1..Len(order) : rt.connection[order[i]] = "throws"})
       IN [ sse |-> s,
            written |-> {order[i] : i \in 1..(k - 1)},
            threw |-> TRUE ]
  ELSE [ sse |-> s, written |-> Registered(s), threw |-> FALSE ]

RECURSIVE WriteToAll(_, _, _, _)
WriteToAll(s, rt, order, written) ==
  IF order = << >>
  THEN [sse |-> s, written |-> written, threw |-> FALSE]
  ELSE LET id == Head(order)
       IN IF id \notin Registered(s)
          THEN WriteToAll(s, rt, Tail(order), written)
          ELSE IF rt.connection[id] = "ok"
               THEN WriteToAll(s, rt, Tail(order), written \cup {id})
               ELSE WriteToAll(DeleteClient(s, id), rt, Tail(order), written)

Broadcast(s, rt, type) == WriteToAll(s, rt, s.clients, {})

(* the callback of the interval timer *)
KeepAlive(s, rt) ==
  IF Len(s.clients) = 0
  THEN [ sse |-> [s EXCEPT !.keepAliveInterval = 0],
         runtime |-> [rt EXCEPT !.intervals = @ \ {s.keepAliveInterval}] ]
  ELSE [ sse |-> WriteToAll(s, rt, s.clients, {}).sse, runtime |-> rt ]

(* client.close() may throw, which close() ignores *)
CloseSse(s, rt) ==
  [ sse |-> [s EXCEPT !.keepAliveInterval = 0, !.clients = << >>],
    runtime |-> IF s.keepAliveInterval # 0
                THEN [rt EXCEPT !.intervals = @ \ {s.keepAliveInterval}]
                ELSE rt ]

InitSse ==
  /\ sse = NewSseManager
  /\ runtime = [ constructed |-> TRUE, intervals |-> {},
                 connection |-> [id \in ClientIds |-> "ok"] ]
  /\ watcher = NoObject /\ monitor = NoObject
  /\ EvalIdle /\ SessionIdle /\ AgentsIdle /\ CallIdle /\ StoreIdle

SseCalled(fn, args, value, next) ==
  /\ call' = [fn |-> fn, args |-> args]
  /\ result' = value
  /\ sse' = next.sse
  /\ runtime' = next.runtime
  /\ UNCHANGED <<watcher, monitor, evalVars, sessionVars, agentVars, storeVars>>

SseAddClient ==
  \E id \in ClientIds :
    SseCalled("addClient", [id |-> id], Returned("cleanup"), AddClient(sse, runtime, id))

SseRemoveClient ==
  \E id \in ClientIds :
    SseCalled("removeClient", [id |-> id], Returned("void"), RemoveClient(sse, runtime, id))

SseBroadcast ==
  \E type \in SsePayloads :
    LET r == Broadcast(sse, runtime, type)
    IN SseCalled("broadcast",
                 [type |-> type, clients |-> Registered(sse), connection |-> runtime.connection],
                 IF r.threw THEN Threw([written |-> r.written])
                            ELSE Returned([written |-> r.written]),
                 [sse |-> r.sse, runtime |-> runtime])

SseKeepAliveTick ==
  \E handle \in runtime.intervals :
    SseCalled("keepAlive", [handle |-> handle, clients |-> Registered(sse)],
              Returned("void"), KeepAlive(sse, runtime))

SseClose ==
  SseCalled("close", [clients |-> Registered(sse)], Returned("void"),
            CloseSse(sse, runtime))

(* a connection goes bad: from now on the client's write fails *)
SseConnectionBreaks ==
  \E id \in ClientIds, how \in {"throws", "cleanup"} :
    /\ runtime.connection[id] = "ok"
    /\ runtime' = [runtime EXCEPT !.connection[id] = how]
    /\ UNCHANGED <<sse, watcher, monitor, evalVars, sessionVars, agentVars, storeVars, callVars>>

NextSse ==
  \/ SseAddClient \/ SseRemoveClient \/ SseBroadcast
  \/ SseKeepAliveTick \/ SseClose \/ SseConnectionBreaks

SpecSse == InitSse /\ [][NextSse]_vars

KeepAliveRunning ==
  sse.keepAliveInterval # 0 /\ sse.keepAliveInterval \in runtime.intervals

----------------------------------------------------------------------------
(* C36: the keep-alive timer is running in every state in which a client   *)
(* is registered; a keep-alive tick that finds no client stops the timer;  *)
(* after close() there is no client and no timer; an addClient after that  *)
(* starts the timer again.                                                 *)
C36_KeepAliveWhileClients ==
  /\ sse.clients # << >> => KeepAliveRunning
  /\ call.fn = "keepAlive" /\ call.args.clients = {} =>
       sse.keepAliveInterval = 0 /\ runtime.intervals = {}
  /\ call.fn = "close" =>
       sse.clients = << >> /\ sse.keepAliveInterval = 0 /\ runtime.intervals = {}
  /\ call.fn = "addClient" => sse.clients # << >> /\ KeepAliveRunning

(* addClient has just run; one client is registered, the other one is     *)
(* gone with a broken connection; one timer is running                     *)
C36_Witness ==
  /\ call.fn = "addClient"
  /\ Len(sse.clients) = 1
  /\ runtime.connection[sse.clients[1]] = "ok"
  /\ \E id \in ClientIds : id \notin Registered(sse) /\ runtime.connection[id] # "ok"
  /\ KeepAliveRunning
  /\ Cardinality(runtime.intervals) = 1

----------------------------------------------------------------------------
(* C37: broadcast writes the payload to every registered client; a client  *)
(* whose write throws is removed from the registry and the error does not  *)
(* reach the caller; the other registered clients receive the payload and  *)
(* remain registered.                                                      *)
C37_BroadcastIsolatesFailures ==
  call.fn = "broadcast" =>
    /\ result.status = "returned"
    /\ \A id \in call.args.clients :
         IF call.args.connection[id] = "ok"
         THEN id \in result.value.written /\ id \in Registered(sse)
         ELSE id \notin result.value.written /\ id \notin Registered(sse)

(* the first registered client's write throws, the second one's works      *)
C37_Witness ==
  /\ call.fn = "broadcast"
  /\ Cardinality(call.args.clients) = 2
  /\ \E bad, good \in call.args.clients :
       /\ call.args.connection[bad] = "throws"
       /\ call.args.connection[good] = "ok"
       /\ result = Returned([written |-> {good}])
       /\ sse.clients = <<good>>

----------------------------------------------------------------------------
(* SpecIngest: ingestFile on one transcript file that grows by appends.    *)
(* file is the sequence of its bytes, here "a", "b" and "nl"; a line's     *)
(* text stands for the parsed line and is its uuid.  runtime is the file   *)
(* system's clock: now, the current timestamp at the granularity the file  *)
(* system records, and mtime, the timestamp of the file's last write.      *)
(* fileState is the file's row of ingest_state, messages the messages      *)
(* table, dbLog the lines given to insertLines.  The lines carry no usage  *)
(* and no content blocks; the agents table is not modelled.                *)

MaxIngestBytes == 4

MaxClock == 2

MaxIngested == 4

IngestBytes == {"a", "b", "nl"}

NoIngestState == [present |-> FALSE]

IngestState(byteOffset, remainder, mtime) ==
  [present |-> TRUE, byte_offset |-> byteOffset, remainder |-> remainder, last_mtime |-> mtime]

LineOfText(text) == [uuid |-> text, type |-> "assistant", usage |-> NoUsage]

(* the complete lines of a file's first size bytes *)
LinesOfFile(bytes, size) == ReadJsonlIncremental(SubSeq(bytes, 1, size), 0, << >>).lines

IngestFile(db, bytes, mtime, fullRescan) ==
  IF db.state.present /\ ~fullRescan /\ db.state.last_mtime >= mtime
  THEN [messages |-> db.messages, state |-> db.state, lines |-> << >>, skipped |-> TRUE]
  ELSE LET byteOffset == IF fullRescan \/ ~db.state.present THEN 0 ELSE db.state.byte_offset
           remainder == IF fullRescan \/ ~db.state.present THEN << >> ELSE db.state.remainder
           r == ReadJsonlIncremental(bytes, byteOffset, remainder)
           given == [i \in 1..Len(r.lines) |-> LineOfText(r.lines[i])]
       IN [ messages |-> IF Len(given) > 0
                         THEN InsertLines(db.messages, given, "test-project", "sess-001", "main")
                         ELSE db.messages,
            state |-> IngestState(r.bytesRead, r.remainder, mtime),
            lines |-> given,
            skipped |-> FALSE ]

InitIngest ==
  /\ file = << >>
  /\ fileState = NoIngestState
  /\ messages = << >>
  /\ dbLog = << >>
  /\ runtime = [constructed |-> TRUE, now |-> 0, mtime |-> 0]
  /\ delivered = << >> /\ diagnostic_events = << >> /\ allEvents = << >>
  /\ sse = NoObject /\ watcher = NoObject /\ monitor = NoObject
  /\ EvalIdle /\ SessionIdle /\ AgentsIdle /\ CallIdle

(* The writer appends a byte; a line is never written twice.  The write    *)
(* stamps the file with the current timestamp.                             *)
IngestAppend ==
  \E byte \in IngestBytes :
    /\ Len(file) < MaxIngestBytes
    /\ LET written == Append(file, byte)
           lines == LinesOfFile(written, Len(written))
       IN /\ \A i, j \in 1..Len(lines) : lines[i] = lines[j] => i = j
          /\ byte = "nl" => file # << >> /\ file[Len(file)] # "nl"
          /\ file' = written
    /\ runtime' = [runtime EXCEPT !.mtime = runtime.now]
    /\ UNCHANGED <<fileState, delivered, messages, diagnostic_events, dbLog, allEvents,
                   sse, watcher, monitor, evalVars, sessionVars, agentVars, callVars>>

ClockTick ==
  /\ runtime.now < MaxClock
  /\ runtime' = [runtime EXCEPT !.now = @ + 1]
  /\ UNCHANGED <<sse, watcher, monitor, evalVars, sessionVars, agentVars, callVars, storeVars>>

IngestFileCall ==
  \E fullRescan \in BOOLEAN :
    LET db == [messages |-> messages, state |-> fileState]
        r == IngestFile(db, file, runtime.mtime, fullRescan)
    IN /\ Len(dbLog) + Len(r.lines) <= MaxIngested
       /\ call' = [ fn |-> "ingestFile",
                    args |-> [ fullRescan |-> fullRescan, size |-> Len(file),
                               mtime |-> runtime.mtime, before |-> db ] ]
       /\ result' = Returned(r.lines)
       /\ messages' = r.messages
       /\ fileState' = r.state
       /\ dbLog' = dbLog \o [ i \in 1..Len(r.lines) |->
                               [ key |-> MessageKey("test-project", "sess-001", "main",
                                                    r.lines[i].uuid),
                                 line |-> r.lines[i] ] ]
       /\ UNCHANGED <<file, delivered, diagnostic_events, allEvents, objVars,
                      evalVars, sessionVars, agentVars>>

NextIngest == IngestAppend \/ ClockTick \/ IngestFileCall

SpecIngest == InitIngest /\ [][NextIngest]_vars

IngestCalled == call.fn = "ingestFile"

(* the call found a stored mtime not older than the file's *)
IngestUnchanged ==
  /\ call.args.before.state.present
  /\ ~call.args.fullRescan
  /\ call.args.before.state.last_mtime >= call.args.mtime

StoredUuids == {messages[i].key.uuid : i \in 1..Len(messages)}

SkipsUnchanged ==
  IngestCalled /\ IngestUnchanged =>
    /\ result = Returned(<< >>)
    /\ messages = call.args.before.messages
    /\ fileState = call.args.before.state

StoresProgress ==
  IngestCalled /\ ~IngestUnchanged =>
    /\ fileState.present
    /\ fileState.byte_offset = call.args.size
    /\ fileState.last_mtime = call.args.mtime
    /\ LinesOfFile(file, call.args.size) \o <<fileState.remainder>>
         = SplitLines(ToStringUtf8(SubSeq(file, 1, call.args.size)))

FileLines == {LinesOfFile(file, Len(file))[i] : i \in 1..Len(LinesOfFile(file, Len(file)))}

----------------------------------------------------------------------------
(* C35: ingestFile is idempotent on unchanged files.  When the file's      *)
(* mtime is not newer than the stored last_mtime and fullRescan is not     *)
(* set, it returns no lines and changes no table; otherwise it resumes     *)
(* from the stored byte offset and remainder and stores the new offset,    *)
(* remainder and mtime; so after a call the messages table holds every     *)
(* complete line of the file once.                                         *)
C35_IngestOncePerLine ==
  /\ SkipsUnchanged
  /\ StoresProgress
  /\ OneRowPerKey
  /\ IngestCalled =>
       StoredUuids = {LinesOfFile(file, call.args.size)[i] :
                        i \in 1..Len(LinesOfFile(file, call.args.size))}

(* What does hold: no line is stored twice, nothing is stored that the     *)
(* file does not hold, and a call that is not skipped leaves every         *)
(* complete line of the file stored.                                       *)
IngestNeverRepeats ==
  /\ SkipsUnchanged
  /\ StoresProgress
  /\ OneRowPerKey
  /\ StoredUuids \subseteq FileLines
  /\ IngestCalled /\ ~IngestUnchanged =>
       StoredUuids = {LinesOfFile(file, call.args.size)[i] :
                        i \in 1..Len(LinesOfFile(file, call.args.size))}

(* a call skipped a file that holds a complete line the table lacks *)
IngestMissedLine ==
  /\ IngestCalled /\ IngestUnchanged
  /\ StoredUuids # {LinesOfFile(file, call.args.size)[i] :
                      i \in 1..Len(LinesOfFile(file, call.args.size))}

----------------------------------------------------------------------------
(* SpecWatcher: the FileWatcher of one session directory.  watcher is the  *)
(* FileWatcher object: discoveryWatcher, and the maps fileWatchers,        *)
(* debounceTimers and fileStates as functions over the paths, with 0 and   *)
(* NoWatchState for a missing entry.  runtime is what the object runs on:  *)
(* the files on disk, the timers that are armed, the fs.watch watchers     *)
(* that are open, chokidar and the paths it has announced.  Every callback *)
(* runs to completion, so each is one action.                              *)

MaxWatchBytes == 2

MaxHandles == 4

WatchPaths == {"main.jsonl", "agent-a1.jsonl"}

WatchBytes == {"a", "nl"}

NoWatchState == [present |-> FALSE]

NoFile == [exists |-> FALSE]

NewFileWatcher ==
  [ constructed |-> TRUE,
    discoveryWatcher |-> "null",
    fileWatchers |-> [p \in WatchPaths |-> 0],
    debounceTimers |-> [p \in WatchPaths |-> 0],
    fileStates |-> [p \in WatchPaths |-> NoWatchState] ]

TimersOf(rt, path) == {t \in rt.timers : t.path = path}

FsWatchersOf(rt, path) == {f \in rt.fsWatchers : f.path = path}

(* clearTimeout: disarms the timer with that handle, if it is armed *)
ClearTimeout(rt, handle) == [rt EXCEPT !.timers = {t \in @ : t.handle # handle}]

WatcherProcessFile(w, rt, path) ==
  LET fileStateOf == IF w.fileStates[path] = NoWatchState
               THEN [present |-> TRUE, byteOffset |-> 0, remainder |-> << >>]
               ELSE w.fileStates[path]
  IN IF ~rt.disk[path].exists
     THEN [watcher |-> w, runtime |-> rt, lines |-> << >>]
     ELSE LET r == ReadJsonlIncremental(rt.disk[path].bytes, fileStateOf.byteOffset, fileStateOf.remainder)
          IN [ watcher |-> [w EXCEPT !.fileStates[path] =
                              [present |-> TRUE, byteOffset |-> r.bytesRead,
                               remainder |-> r.remainder]],
               runtime |-> rt,
               lines |-> r.lines ]

WatchFile(w, rt, path) ==
  IF w.fileWatchers[path] # 0 \/ ~rt.disk[path].exists
  THEN [watcher |-> w, runtime |-> rt]
  ELSE [ watcher |-> [w EXCEPT !.fileWatchers[path] = rt.nextHandle],
         runtime |-> [rt EXCEPT !.fsWatchers = @ \cup {[handle |-> rt.nextHandle, path |-> path]},
                                !.nextHandle = @ + 1] ]

UnwatchFile(w, rt, path) ==
  [ watcher |-> [w EXCEPT !.debounceTimers[path] = 0,
                          !.fileWatchers[path] = 0,
                          !.fileStates[path] = NoWatchState],
    runtime |-> [ClearTimeout(rt, w.debounceTimers[path]) EXCEPT
                   !.fsWatchers = {f \in @ : f.handle # w.fileWatchers[path]}] ]

(* the listener without its clearTimeout *)
FsListener_KeepsTimer(w, rt, path) ==
  [ watcher |-> [w EXCEPT !.debounceTimers[path] = rt.nextHandle],
    runtime |-> [rt EXCEPT !.timers = @ \cup {[handle |-> rt.nextHandle, path |-> path]},
                           !.nextHandle = @ + 1] ]

(* the listener given to fs.watch *)
FsListener(w, rt, path) ==
  LET cleared == IF w.debounceTimers[path] # 0
                 THEN ClearTimeout(rt, w.debounceTimers[path])
                 ELSE rt
  IN [ watcher |-> [w EXCEPT !.debounceTimers[path] = rt.nextHandle],
       runtime |-> [cleared EXCEPT !.timers = @ \cup {[handle |-> rt.nextHandle, path |-> path]},
                                   !.nextHandle = @ + 1] ]

(* the callback given to setTimeout; the runtime has disarmed its timer *)
DebounceTimeout(w, rt, timer) ==
  WatcherProcessFile([w EXCEPT !.debounceTimers[timer.path] = 0],
                     [rt EXCEPT !.timers = @ \ {timer}], timer.path)

WatcherStart(w, rt) ==
  [ watcher |-> [w EXCEPT !.discoveryWatcher = "open"],
    runtime |-> [rt EXCEPT !.chokidar = "open", !.announced = {}] ]

(* a stop() that closes the watchers and leaves the timers armed *)
WatcherStop_KeepsTimers(w, rt) ==
  [ watcher |-> [w EXCEPT !.fileWatchers = [p \in WatchPaths |-> 0]],
    runtime |-> [rt EXCEPT
                   !.fsWatchers = {f \in @ : \A p \in WatchPaths : f.handle # w.fileWatchers[p]},
                   !.chokidar = IF w.discoveryWatcher = "open" THEN "closed" ELSE @] ]

(* stop() up to its await *)
WatcherStop(w, rt) ==
  [ watcher |-> [w EXCEPT !.debounceTimers = [p \in WatchPaths |-> 0],
                          !.fileWatchers = [p \in WatchPaths |-> 0]],
    runtime |-> [rt EXCEPT
                   !.timers = {t \in @ : \A p \in WatchPaths : t.handle # w.debounceTimers[p]},
                   !.fsWatchers = {f \in @ : \A p \in WatchPaths : f.handle # w.fileWatchers[p]},
                   !.chokidar = IF w.discoveryWatcher = "open" THEN "closed" ELSE @] ]

InitWatcher ==
  /\ watcher = NewFileWatcher
  /\ runtime = [ constructed |-> TRUE, nextHandle |-> 1, timers |-> {}, fsWatchers |-> {},
                 disk |-> [p \in WatchPaths |-> NoFile],
                 chokidar |-> "none", announced |-> {} ]
  /\ sse = NoObject /\ monitor = NoObject
  /\ EvalIdle /\ SessionIdle /\ AgentsIdle /\ CallIdle /\ StoreIdle

WatcherCalled(fn, args, value, next) ==
  /\ call' = [fn |-> fn, args |-> args]
  /\ result' = value
  /\ watcher' = next.watcher
  /\ runtime' = next.runtime
  /\ UNCHANGED <<sse, monitor, evalVars, sessionVars, agentVars, storeVars>>

DiskChanges(path, to) ==
  /\ runtime' = [runtime EXCEPT !.disk[path] = to]
  /\ UNCHANGED <<sse, watcher, monitor, evalVars, sessionVars, agentVars, callVars, storeVars>>

DiskCreate == \E path \in WatchPaths :
  /\ ~runtime.disk[path].exists
  /\ DiskChanges(path, [exists |-> TRUE, bytes |-> << >>])

(* the writer appends to a transcript, lines of one character *)
DiskAppend == \E path \in WatchPaths, byte \in WatchBytes :
  /\ runtime.disk[path].exists
  /\ Len(runtime.disk[path].bytes) < MaxWatchBytes
  /\ byte = "nl" <=> (Len(runtime.disk[path].bytes) % 2 = 1)
  /\ DiskChanges(path, [exists |-> TRUE, bytes |-> Append(runtime.disk[path].bytes, byte)])

DiskDelete == \E path \in WatchPaths :
  /\ runtime.disk[path].exists
  /\ DiskChanges(path, NoFile)

WatcherStartCall ==
  /\ watcher.discoveryWatcher = "null"
  /\ runtime.chokidar # "open"
  /\ WatcherCalled("start", [path |-> "*"], Returned(0), WatcherStart(watcher, runtime))

(* chokidar's 'add' for a file it has not announced *)
ChokidarAdd == \E path \in WatchPaths :
  /\ runtime.chokidar = "open"
  /\ runtime.disk[path].exists
  /\ path \notin runtime.announced
  /\ runtime.nextHandle <= MaxHandles
  /\ LET read == WatcherProcessFile(watcher, runtime, path)
         next == WatchFile(read.watcher, read.runtime, path)
     IN WatcherCalled("add", [path |-> path], Returned(read.lines),
                      [next EXCEPT !.runtime.announced = @ \cup {path}])

(* chokidar's 'unlink' for a file it had announced *)
ChokidarUnlink == \E path \in WatchPaths :
  /\ runtime.chokidar = "open"
  /\ ~runtime.disk[path].exists
  /\ path \in runtime.announced
  /\ LET next == UnwatchFile(watcher, runtime, path)
     IN WatcherCalled("unwatchFile", [path |-> path], Returned(0),
                      [next EXCEPT !.runtime.announced = @ \ {path}])

(* an open fs.watch watcher reports a change *)
FsNotify == \E f \in runtime.fsWatchers :
  /\ runtime.nextHandle <= MaxHandles
  /\ WatcherCalled("fsListener", [path |-> f.path, existing |-> watcher.debounceTimers[f.path]],
                   Returned(runtime.nextHandle), FsListener(watcher, runtime, f.path))

(* an armed timer expires *)
TimerFires == \E timer \in runtime.timers :
  LET next == DebounceTimeout(watcher, runtime, timer)
  IN WatcherCalled("debounceTimeout", [path |-> timer.path], Returned(next.lines), next)

WatcherStopCall ==
  /\ watcher.discoveryWatcher = "open"
  /\ runtime.chokidar = "open"
  /\ WatcherCalled("stop", [path |-> "*"], NoResult, WatcherStop(watcher, runtime))

(* stop() after its await *)
WatcherStopResumes ==
  /\ watcher.discoveryWatcher = "open"
  /\ runtime.chokidar = "closed"
  /\ WatcherCalled("stop", [path |-> "*"], Returned(0),
                   [ watcher |-> [watcher EXCEPT !.discoveryWatcher = "null"],
                     runtime |-> runtime ])

NextWatcher ==
  \/ DiskCreate \/ DiskAppend \/ DiskDelete
  \/ WatcherStartCall \/ ChokidarAdd \/ ChokidarUnlink
  \/ FsNotify \/ TimerFires
  \/ WatcherStopCall \/ WatcherStopResumes

SpecWatcher == InitWatcher /\ [][NextWatcher]_vars

----------------------------------------------------------------------------
(* C34: FileWatcher keeps at most one pending debounce timer per path.     *)
(* The armed timers are exactly those of debounceTimers, at most one per   *)
(* path; the listener leaves exactly one armed timer for its path, the     *)
(* new one, and the timer's callback leaves none; after unwatchFile(path)  *)
(* no timer, watcher or read state remains for the path; once stop() has   *)
(* run no timer is armed, no per-file watcher is open, and no timer's      *)
(* callback runs.                                                          *)
C34_OneDebounceTimerPerPath ==
  /\ \A path \in WatchPaths :
       /\ Cardinality(TimersOf(runtime, path)) <= 1
       /\ TimersOf(runtime, path) =
            IF watcher.debounceTimers[path] = 0 THEN {}
            ELSE {[handle |-> watcher.debounceTimers[path], path |-> path]}
       /\ FsWatchersOf(runtime, path) =
            IF watcher.fileWatchers[path] = 0 THEN {}
            ELSE {[handle |-> watcher.fileWatchers[path], path |-> path]}
  /\ call.fn = "fsListener" =>
       TimersOf(runtime, call.args.path) \in
         { {[handle |-> h, path |-> call.args.path]} : h \in {result.value} \ {call.args.existing} }
  /\ call.fn = "debounceTimeout" =>
       /\ TimersOf(runtime, call.args.path) = {}
       /\ runtime.chokidar = "open"
  /\ call.fn = "unwatchFile" =>
       /\ TimersOf(runtime, call.args.path) = {}
       /\ FsWatchersOf(runtime, call.args.path) = {}
       /\ watcher.debounceTimers[call.args.path] = 0
       /\ watcher.fileWatchers[call.args.path] = 0
       /\ watcher.fileStates[call.args.path] = NoWatchState
  /\ runtime.chokidar = "closed" =>
       /\ runtime.timers = {} /\ runtime.fsWatchers = {}
       /\ \A path \in WatchPaths :
            watcher.debounceTimers[path] = 0 /\ watcher.fileWatchers[path] = 0

(* a notification arrived while a timer was pending for its path *)
C34_Witness ==
  /\ call.fn = "fsListener"
  /\ call.args.existing # 0
  /\ Cardinality(TimersOf(runtime, call.args.path)) = 1

----------------------------------------------------------------------------
(* SpecMonitor: a SessionMonitor on a session directory of two files, the  *)
(* main transcript and one agent transcript.  monitor is the object:       *)
(* fileWatcher, evaluators (a Map, kept in insertion order), agentLines,   *)
(* agents and allEvents; watcher is its FileWatcher and runtime the disk,  *)
(* timers and watchers it runs on.  The monitor is given no db, so         *)
(* handleNewLines writes no table; the dashboard holds a copy of agents    *)
(* and allEvents and has no client.  A byte of a file is "nl" or the text  *)
(* of one whole transcript line; the writer appends whole lines.           *)
(* agentLog is the history of the calls made on each agent's evaluator.    *)

MaxMonitorLines == 2

MonitorModel == "claude-sonnet-4-5-20250929"

AssistantLine(uuid, parentUuid, timestamp, inputTokens, outputTokens, toolUses) ==
  [ type |-> "assistant", role |-> "assistant", uuid |-> uuid, parentUuid |-> parentUuid,
    timestamp |-> timestamp, model |-> MonitorModel,
    usage |-> Usage(inputTokens, outputTokens), toolUses |-> toolUses, toolErrors |-> 0 ]

UserLine(uuid, parentUuid, timestamp, toolErrors) ==
  [ type |-> "user", role |-> "user", uuid |-> uuid, parentUuid |-> parentUuid,
    timestamp |-> timestamp, model |-> Undefined,
    usage |-> NoUsage, toolUses |-> 0, toolErrors |-> toolErrors ]

(* the transcript line a line's text parses to *)
MonitorLine(text) ==
  CASE text = "A1"  -> AssistantLine("u1", Undefined, 1, 120000, 10, 1)
    [] text = "U1"  -> UserLine("u2", "u1", 2, 1)
    [] text = "A2"  -> AssistantLine("u3", "u2", 3, 130000, 10, 1)
    [] text = "U2"  -> UserLine("u4", "u3", 4, 0)
    [] text = "B1"  -> AssistantLine("v1", Undefined, 1, 40000, 1, 0)
    [] text = "B1x" -> AssistantLine("v1", Undefined, 1, 40000, 5, 0)
    [] text = "B2"  -> AssistantLine("v2", "v1", 2, 50000, 5, 0)
    [] OTHER        -> AssistantLine("v3", "v2", 3, 60000, 5, 0)

(* what the writer of each file writes, line by line *)
Transcript(path) ==
  IF path = "main.jsonl" THEN <<"A1", "U1", "A2", "U2">> ELSE <<"B1", "B1x", "B2", "B3">>

RECURSIVE BytesOfLines(_)
BytesOfLines(texts) ==
  IF texts = << >> THEN << >> ELSE <<Head(texts), "nl">> \o BytesOfLines(Tail(texts))

FileOfLines(path, n) ==
  [exists |-> TRUE, bytes |-> BytesOfLines(SubSeq(Transcript(path), 1, n))]

LinesWritten(rt, path) == Len(rt.disk[path].bytes) \div 2

Basename(path) == IF path = "main.jsonl" THEN "main" ELSE "agent-a1"

ParsedTranscript(rawLines) == [i \in 1..Len(rawLines) |-> MonitorLine(rawLines[i][1])]

ReadJsonlFile(bytes) == ParsedTranscript(ParsedLines(SplitLines(ToStringUtf8(bytes))))

NewSessionMonitor ==
  [ constructed |-> TRUE, fileWatcher |-> "null",
    evaluators |-> << >>, agentLines |-> [p \in WatchPaths |-> << >>],
    agents |-> << >>, allEvents |-> << >> ]

EvaluatorIndex(m, agentId) ==
  FirstIndex({i \in 1..Len(m.evaluators) : m.evaluators[i].agentId = agentId})

AgentIndex(m, agentId) ==
  FirstIndex({i \in 1..Len(m.agents) : m.agents[i].agentId = agentId})

NewEvaluator(agentId, model) ==
  [ agentId |-> agentId, config |-> InitEvaluator(agentId, model, NoProfilesConfig),
    state |-> NewState ]

(* this.evaluators.set(agentId, new EventEvaluator(...)) *)
MonitorInitEvaluator(m, agentId, model) ==
  [m EXCEPT !.evaluators =
     IF EvaluatorIndex(m, agentId) = 0
     THEN Append(@, NewEvaluator(agentId, model))
     ELSE [@ EXCEPT ![EvaluatorIndex(m, agentId)] = NewEvaluator(agentId, model)]]

ExtractToolStats(assistantLine, userResponseLine) ==
  [ toolUseCount |-> assistantLine.toolUses,
    toolErrorCount |-> IF userResponseLine.type = Undefined THEN 0
                       ELSE userResponseLine.toolErrors ]

(* lines.find(l => l.type === 'user' && l.parentUuid === line.uuid) *)
NextUserLine(lines, line) ==
  LET at == FirstIndex({i \in 1..Len(lines) :
                          lines[i].type = "user" /\ lines[i].parentUuid = line.uuid})
  IN IF at = 0 THEN [type |-> Undefined] ELSE lines[at]

PointsOfAgent(m, agentId) ==
  IF AgentIndex(m, agentId) = 0 THEN << >> ELSE m.agents[AgentIndex(m, agentId)].points

(* Feeding an evaluator: its state, the events it returned and the calls   *)
(* made on it                                                              *)
StartFeed(evaluator) == [state |-> evaluator.state, events |-> << >>, calls |-> << >>]

AfterTurn(acc, r, t) ==
  [ state |-> r.state, events |-> acc.events \o r.events,
    calls |-> Append(acc.calls, [op |-> "evaluateTurn", t |-> t]) ]

(* the monitor and the call history once evaluator k was fed *)
WithFed(m, k, agentId, log, fed) ==
  [ monitor |-> [m EXCEPT !.evaluators[k].state = fed.state, !.allEvents = @ \o fed.events],
    log |-> [log EXCEPT ![agentId] = @ \o fed.calls] ]

(* start(): an evaluator for every agent of the parsed session, fed each   *)
(* of the agent's points                                                   *)
RECURSIVE ReplayPoints(_, _, _)
ReplayPoints(cfg, pts, acc) ==
  IF pts = << >>
  THEN acc
  ELSE ReplayPoints(cfg, Tail(pts),
                    AfterTurn(acc, EvaluateTurn(cfg, acc.state, Head(pts), 0, 0), Head(pts).t))

ReplayInto(m, agent, log) ==
  WithFed(m, EvaluatorIndex(m, agent.agentId), agent.agentId, log,
          ReplayPoints(m.evaluators[EvaluatorIndex(m, agent.agentId)].config, agent.points,
                       StartFeed(m.evaluators[EvaluatorIndex(m, agent.agentId)])))

ReplayAgent(ml, agent) ==
  ReplayInto(MonitorInitEvaluator(ml.monitor, agent.agentId, MonitorModel), agent, ml.log)

RECURSIVE ReplayAgents(_, _)
ReplayAgents(ml, agents) ==
  IF agents = << >> THEN ml ELSE ReplayAgents(ReplayAgent(ml, Head(agents)), Tail(agents))

SeriesOfFile(rt, path) ==
  IF Len(ReadJsonlFile(rt.disk[path].bytes)) > 0
  THEN <<BuildAgentTimeSeries(Basename(path), ReadJsonlFile(rt.disk[path].bytes))>>
  ELSE << >>

ParseSession(rt) == SeriesOfFile(rt, "main.jsonl") \o SeriesOfFile(rt, "agent-a1.jsonl")

StartWith(m, existing, log) ==
  ReplayAgents([monitor |-> [m EXCEPT !.agents = existing, !.fileWatcher = "set"], log |-> log],
               existing)

MonitorStart(m, rt, log) == StartWith(m, ParseSession(rt), log)

IsTurnLine(line) == line.type = "assistant" /\ line.usage.present

EvaluateLine(cfg, st, line, toolStats) ==
  EvaluateTurn(cfg, st, PointOfLine(line), toolStats.toolUseCount, toolStats.toolErrorCount)

(* the loop of handleNewLines over the batch's assistant lines *)
RECURSIVE FeedLines(_, _, _, _)
FeedLines(cfg, assistantLines, lines, acc) ==
  IF assistantLines = << >>
  THEN acc
  ELSE FeedLines(cfg, Tail(assistantLines), lines,
                 AfterTurn(acc,
                           EvaluateLine(cfg, acc.state, Head(assistantLines),
                                        ExtractToolStats(Head(assistantLines),
                                                         NextUserLine(lines, Head(assistantLines)))),
                           Head(assistantLines).timestamp))

(* this.agents[idx] = ts, or this.agents.push(ts) *)
WithSeries(m, ts) ==
  [m EXCEPT !.agents = IF AgentIndex(m, ts.agentId) > 0
                       THEN [@ EXCEPT ![AgentIndex(m, ts.agentId)] = ts]
                       ELSE Append(@, ts)]

WithAgent(m, path, lines) ==
  WithSeries([m EXCEPT !.agentLines[path] = @ \o lines],
             BuildAgentTimeSeries(Basename(path), m.agentLines[path] \o lines))

ModelOfLines(lines) ==
  IF \A i \in 1..Len(lines) : lines[i].model = Undefined
  THEN "unknown"
  ELSE lines[FirstIndex({i \in 1..Len(lines) : lines[i].model # Undefined})].model

WithEvaluator(m, name, lines) ==
  IF EvaluatorIndex(m, name) = 0 THEN MonitorInitEvaluator(m, name, ModelOfLines(lines)) ELSE m

FeedBatch(m, name, lines, log) ==
  WithFed(m, EvaluatorIndex(m, name), name, log,
          FeedLines(m.evaluators[EvaluatorIndex(m, name)].config, SelectSeq(lines, IsTurnLine),
                    lines, StartFeed(m.evaluators[EvaluatorIndex(m, name)])))

MonitorHandleNewLines(m, path, lines, log) ==
  FeedBatch(WithEvaluator(WithAgent(m, path, lines), Basename(path), lines),
            Basename(path), lines, log)

WithCompleted(ml, k, r) ==
  [ monitor |-> [ml.monitor EXCEPT !.evaluators[k].state = r.state,
                                   !.allEvents = Append(@, r.event)],
    log |-> [ml.log EXCEPT ![r.event.agentId] =
               Append(@, [op |-> "complete", t |-> r.event.timestamp])] ]

CompleteEvaluator(ml, k, pts) ==
  IF pts = << >>
  THEN ml
  ELSE WithCompleted(ml, k, Complete(ml.monitor.evaluators[k].config,
                                     ml.monitor.evaluators[k].state, pts[Len(pts)].t))

(* the loop of stop() over the evaluators *)
RECURSIVE CompleteEvaluators(_, _)
CompleteEvaluators(ml, k) ==
  IF k > Len(ml.monitor.evaluators)
  THEN ml
  ELSE CompleteEvaluators(
         CompleteEvaluator(ml, k, PointsOfAgent(ml.monitor, ml.monitor.evaluators[k].agentId)),
         k + 1)

MonitorStop(m, log) == CompleteEvaluators([monitor |-> m, log |-> log], 1)

MonitorAgents == {Basename(p) : p \in WatchPaths}

InitMonitor ==
  /\ monitor = NewSessionMonitor
  /\ watcher = NoObject
  /\ \E existing \in [WatchPaths -> 0..MaxMonitorLines] :
       runtime = [ constructed |-> TRUE, nextHandle |-> 1, timers |-> {}, fsWatchers |-> {},
                   disk |-> [p \in WatchPaths |-> FileOfLines(p, existing[p])],
                   chokidar |-> "none", announced |-> {}, existing |-> existing ]
  /\ agentLog = [a \in MonitorAgents |-> << >>]
  /\ evaluators = << >> /\ heap = << >>
  /\ sse = NoObject
  /\ EvalIdle /\ SessionIdle /\ CallIdle /\ StoreIdle

MonitorCalled(fn, args, next) ==
  /\ call' = [fn |-> fn, args |-> args]
  /\ monitor' = next.monitor
  /\ watcher' = next.watcher
  /\ runtime' = next.runtime
  /\ agentLog' = next.log
  /\ UNCHANGED <<sse, result, evaluators, heap, evalVars, sessionVars, storeVars>>

(* FileWatcher's onLines, when processFile read a line *)
OnLines(m, path, rawLines, log) ==
  IF rawLines = << >>
  THEN [monitor |-> m, log |-> log]
  ELSE MonitorHandleNewLines(m, path, ParsedTranscript(rawLines), log)

Together(ml, wr) ==
  [monitor |-> ml.monitor, log |-> ml.log, watcher |-> wr.watcher, runtime |-> wr.runtime]

AfterRead(m, path, read, log) == Together(OnLines(m, path, read.lines, log), read)

Announced(wr, path) == [wr EXCEPT !.runtime.announced = @ \cup {path}]

AfterAdd(m, path, read, log) ==
  Together(OnLines(m, path, read.lines, log),
           Announced(WatchFile(read.watcher, read.runtime, path), path))

MonStart ==
  /\ monitor.fileWatcher = "null"
  /\ MonitorCalled("start", [pendingTimers |-> 0],
                   Together(MonitorStart(monitor, runtime, agentLog),
                            WatcherStart(NewFileWatcher, runtime)))

(* the writer appends a line to a transcript *)
MonAppend == \E path \in WatchPaths :
  /\ monitor.fileWatcher = "set"
  /\ LinesWritten(runtime, path) < MaxMonitorLines
  /\ runtime' = [runtime EXCEPT !.disk[path] = FileOfLines(path, LinesWritten(runtime, path) + 1)]
  /\ UNCHANGED <<sse, watcher, monitor, evalVars, sessionVars, agentVars, callVars, storeVars>>

MonAdd == \E path \in WatchPaths :
  /\ monitor.fileWatcher = "set"
  /\ runtime.chokidar = "open"
  /\ path \notin runtime.announced
  /\ runtime.nextHandle <= MaxHandles
  /\ MonitorCalled("add", [path |-> path, pendingTimers |-> Cardinality(runtime.timers)],
                   AfterAdd(monitor, path, WatcherProcessFile(watcher, runtime, path), agentLog))

MonNotify == \E f \in runtime.fsWatchers :
  /\ monitor.fileWatcher = "set"
  /\ runtime.nextHandle <= MaxHandles
  /\ MonitorCalled("fsListener",
                   [path |-> f.path, pendingTimers |-> Cardinality(runtime.timers)],
                   Together([monitor |-> monitor, log |-> agentLog],
                            FsListener(watcher, runtime, f.path)))

MonTimer == \E timer \in runtime.timers :
  /\ monitor.fileWatcher = "set"
  /\ MonitorCalled("debounceTimeout",
                   [path |-> timer.path, pendingTimers |-> Cardinality(runtime.timers)],
                   AfterRead(monitor, timer.path, DebounceTimeout(watcher, runtime, timer),
                             agentLog))

(* stop() up to the await in FileWatcher.stop() *)
MonStop ==
  /\ monitor.fileWatcher = "set"
  /\ runtime.chokidar = "open"
  /\ MonitorCalled("stop", [pendingTimers |-> Cardinality(runtime.timers)],
                   Together(MonitorStop(monitor, agentLog), WatcherStop(watcher, runtime)))

(* stop() after its awaits *)
MonStopResumes ==
  /\ monitor.fileWatcher = "set"
  /\ runtime.chokidar = "closed"
  /\ watcher.discoveryWatcher = "open"
  /\ MonitorCalled("stopped", [pendingTimers |-> Cardinality(runtime.timers)],
                   Together([monitor |-> monitor, log |-> agentLog],
                            [ watcher |-> [watcher EXCEPT !.discoveryWatcher = "null"],
                              runtime |-> runtime ]))

NextMonitor ==
  MonStart \/ MonAppend \/ MonAdd \/ MonNotify \/ MonTimer \/ MonStop \/ MonStopResumes

SpecMonitor == InitMonitor /\ [][NextMonitor]_vars

EventTypesOf(m, agentId) ==
  LET ofAgent(e) == e.agentId = agentId /\ e.type # "agent_completed"
      evs == SelectSeq(m.allEvents, ofAgent)
  IN [i \in 1..Len(evs) |-> evs[i].type]

CompletedEvents(m, agentId) ==
  {i \in 1..Len(m.allEvents) :
     m.allEvents[i].agentId = agentId /\ m.allEvents[i].type = "agent_completed"}

----------------------------------------------------------------------------
(* C31: every deduplicated turn of an agent is fed to the agent's          *)
(* evaluator exactly once: after start() and any watcher batches the turn  *)
(* count of each evaluator is the number of points of the agent's current  *)
(* time series.                                                            *)
C31_TurnCountIsPointCount ==
  monitor.fileWatcher = "set" =>
    \A k \in 1..Len(monitor.evaluators) :
      monitor.evaluators[k].state.turnCount
        = Len(PointsOfAgent(monitor, monitor.evaluators[k].agentId))

(* the monitor after start(), as it was before any watcher batch *)
MonitorAtStart ==
  MonitorStart(NewSessionMonitor,
               [runtime EXCEPT !.disk = [p \in WatchPaths |-> FileOfLines(p, runtime.existing[p])]],
               [a \in MonitorAgents |-> << >>]).monitor

(* the lines the watcher has delivered for path, given in one batch *)
InOneBatch(path) ==
  MonitorHandleNewLines(MonitorAtStart, path, monitor.agentLines[path],
                        [a \in MonitorAgents |-> << >>]).monitor

(* C32: the diagnostic events of an agent do not depend on how its lines   *)
(* are split into watcher batches: the lines delivered so far, delivered   *)
(* in one batch, give the same tool-call and tool-error totals and the     *)
(* same sequence of event types.                                           *)
C32_BatchingDoesNotMatter ==
  \A path \in WatchPaths :
    monitor.fileWatcher = "set" /\ monitor.agentLines[path] # << >> =>
      LET name == Basename(path)
          one == InOneBatch(path)
          here == monitor.evaluators[EvaluatorIndex(monitor, name)].state
          there == one.evaluators[EvaluatorIndex(one, name)].state
      IN /\ here.totalToolCalls = there.totalToolCalls
         /\ here.totalToolErrors = there.totalToolErrors
         /\ EventTypesOf(monitor, name) = EventTypesOf(one, name)

(* C33: stop() emits exactly one agent_completed for each agent that has   *)
(* a point, and it is the last event of its agent and the last call on     *)
(* the agent's evaluator, also when a debounce timer was pending when      *)
(* stop() began.                                                           *)
C33_CompletedIsLast ==
  \A name \in MonitorAgents :
    LET done == CompletedEvents(monitor, name)
        log == agentLog[name]
    IN /\ runtime.chokidar # "closed" => done = {}
       /\ runtime.chokidar = "closed" =>
            /\ Cardinality(done) = IF PointsOfAgent(monitor, name) # << >> THEN 1 ELSE 0
            /\ \A i \in done :
                 \A j \in (i + 1)..Len(monitor.allEvents) : monitor.allEvents[j].agentId # name
            /\ \A i \in 1..Len(log) : log[i].op = "complete" => i = Len(log)
            /\ Cardinality(done) = Cardinality({i \in 1..Len(log) : log[i].op = "complete"})

(* stop() ran while a debounce timer was pending and completed an agent *)
C33_Witness ==
  /\ call.fn = "stop"
  /\ call.args.pendingTimers > 0
  /\ \E name \in MonitorAgents : CompletedEvents(monitor, name) # {}

====
